---- MODULE Spec2Model ----
(***************************************************************************)
(* A model of requests_client: the session lifecycle of RequestsClient     *)
(* (client.py) in its shared and thread-local modes, the session lifecycle *)
(* and request path of AsyncRequestsClient (async_client.py), and the      *)
(* rate_limited decorator (utils.py).                                      *)
(*                                                                         *)
(* A Session object is an identity 1..MaxSessions; 0 stands for None (an   *)
(* empty slot / a missing attribute).  Threads and coroutines advance one  *)
(* statement group at a time; a group ends where another thread can        *)
(* observe the state (a lock acquisition, an attribute write) or, for a    *)
(* coroutine, at a suspension point.  The coroutines of an                 *)
(* AsyncRequestsClient all run on the event loop's thread, thread 1.       *)
(***************************************************************************)
EXTENDS Integers, FiniteSets, Sequences, TLC

\* ------------------------------------------------------------------ bounds
NThreads == 2
MaxSessions == 3
MaxTime == 5
RateLimit == 2

Threads == 1..NThreads
Ids == 1..MaxSessions
None == 0

VARIABLES
    variant,      \* which client is under test: "shared", "local", "async", ...
    phase,        \* lifetime of the client object: live, dropped, collected, exited
    nextId,       \* identity the next constructed Session gets
    origin,       \* origin[s]: "none" (not constructed), "getter", "setter"
    madeFor,      \* madeFor[s]: the slot s was built for: 0 the shared one, t thread t's own
    closeCount,   \* closeCount[s]: how often the client called s.close()/s.aclose()
    raised,       \* an exception escaped close()/aclose()
    lockHolder,   \* RequestsClient._lock: 0 free, else the holding thread
    session,      \* RequestsClient.__session
    local,        \* RequestsClient._local.session per thread (0: no attribute)
    finAlive,     \* self.__finalizer.alive (a replaced finalizer object is dead for good)
    pc,           \* pc[t]: where thread t stands
    tmp,          \* tmp[t]: the local `session` / `value` of the running method
    tFin,         \* tFin[t]: the object close() read into `finalizer`: "none", "current" (the one
                  \* self.__finalizer refers to) or "old" (one replaced since)
    readsSince,   \* readsSince[i]: what the getter returned from slot i since it was last reset
    madeSince,    \* madeSince[i]: session_fn calls for slot i since it was last reset
    readers,      \* threads the shared getter returned to since the slot was last reset
    installed,    \* sessions that have been current in some slot
    keptOpen,     \* sessions replaced by set_session(..., close=False)
    sstate,       \* sstate[s]: httpx ClientState of s: unopened, opened, closed
    lastReq,      \* AsyncRequestsClient._last_req
    warned,       \* AsyncRequestsClient.__del__ emitted its warning
    prevDispatch, \* start time of the transport dispatch before the latest (-1: none)
    lastDispatch, \* start time of the latest transport dispatch (-1: none)
    now,          \* time.monotonic()
    wake,         \* wake[t]: the time the sleep of t is over
    rateLimit,    \* the rate_limit the client was built with (0: none)
    rlLock,       \* rate_limited: `lock` of the decorator closure
    lastCall,     \* rate_limited: `last_call` of the decorator closure
    stamped,      \* last_call holds the time of an attempt (not its initial 0)
    prevAttempt,  \* the attempt time that the latest `last_call = monotonic()` overwrote (-1: none)
    lastStart,    \* time the latest call of the wrapped function started (-1: none)
    delayLogged,  \* delayLogged[t]: the running call of t logged its delay record
    stampers,     \* rate_limited: <<p, q>>: thread q's call stored the current last_call, thread
                  \* p's call the value it overwrote (0: none)
    failedAt,     \* attempt time of the latest call whose wrapped function raised (-1: none)
    cfg,          \* request(): the constructor arguments of the client making the call
    call,         \* request(): the arguments and the transport's behaviour of the latest call
    result,       \* request(): how the latest call ended
    rsession,     \* request(): the client holds a session
    factoryArgs,  \* keyword arguments of the latest session_fn call
    records,      \* request(): the log records the latest call emitted, in order
    scheme,       \* instance.__dict__['scheme'], a string (sequence of characters)
    host,         \* instance.__dict__['host']
    port,         \* instance.__dict__['port']: <<>> for None, <<n>> for the integer n
    path_prefix,  \* instance.__dict__['path_prefix']
    urlFmt,       \* instance.__dict__['_url_fmt']: <<>> when absent, else <<format string>>
    lastUrl,      \* what the latest operation returned when it was url_for, else <<>>
    op,           \* the latest operation on the URL parts, its arguments and whether it raised
    invalidated,  \* an assignment has deleted a cached _url_fmt
    args,         \* __init__: the arguments the client is constructed with
    built,        \* __init__: "no" (not yet run), "ok" (returned), "raised" (ValueError)
    attrs,        \* names in the instance's __dict__
    headers,      \* self._headers: a set of <<name, value>> pairs (a value is a sequence of pieces)
    instRequest,  \* instance.__dict__['request']: "none" (absent), "rate_limited" or "assigned"
    outcome       \* the latest operation on the constructed object and how it ended

objVars  == <<nextId, origin, madeFor, closeCount, raised>>
syncVars == <<lockHolder, session, local, finAlive, pc, tmp, tFin>>
histVars == <<readsSince, madeSince, readers, installed, keptOpen>>
lifeVars == <<variant, phase>>
asyncVars == <<sstate, lastReq, warned, prevDispatch, lastDispatch>>
clockVars == <<now, wake, rateLimit>>
rateVars == <<rlLock, lastCall, stamped, prevAttempt, lastStart, delayLogged, failedAt, stampers>>
nonSession == <<asyncVars, clockVars, rateVars>>
reqVars == <<cfg, call, result, rsession, factoryArgs, records>>
urlVars == <<scheme, host, port, path_prefix, urlFmt, lastUrl, op, invalidated>>
ctorVars == <<args, built, attrs, headers, instRequest, outcome>>
pureVars == <<reqVars, urlVars, ctorVars>>
modelVars == <<lifeVars, objVars, syncVars, histVars, asyncVars, clockVars, rateVars>>
vars == <<modelVars, pureVars>>

\* ------------------------------------------------------------ Session objects

\* session_fn(**kwargs) / a Session built by the caller: a fresh identity.
CanCreate == nextId <= MaxSessions

Construct(kind, slot) ==
    /\ CanCreate
    /\ origin' = [origin EXCEPT ![nextId] = kind]
    /\ madeFor' = [madeFor EXCEPT ![nextId] = slot]
    /\ nextId' = nextId + 1

\* s.close(): the client invokes close on Session s.
CloseSession(s) ==
    closeCount' = [closeCount EXCEPT ![s] = @ + 1]

\* --------------------------------------------------- RequestsClient: storage

\* "dispatch": a client in shared mode whose session is read by request().
Shared == variant \in {"shared", "dispatch"}
InRequest == variant = "dispatch"
PerCaller == variant = "local"
Live == phase = "live"

\* `with self._lock:` can be entered.
LockIgnored == TRUE
LockFree == lockHolder = None

\* threading.local(): every thread reads and writes its own `session` attribute.
SlotShared(t) == 1
SlotOf(t) == t

\* _init_session: `if not self.__finalizer.alive`
NeverRearm == FALSE
NeedsRearm == ~finAlive

\* __close: `if self.__session is not None`
AlwaysClose == TRUE
HasSession == session # None

\* --------------------------------------------- RequestsClient.session (getter)

\* `with self._lock:` of the getter, shared mode.
GetAcquire(t) ==
    /\ Shared /\ Live /\ pc[t] = "idle"
    /\ LockFree
    /\ session # None \/ CanCreate
    /\ lockHolder' = t
    /\ pc' = [pc EXCEPT ![t] = "get_check"]
    /\ UNCHANGED <<session, local, finAlive, tmp, tFin>>
    /\ UNCHANGED <<lifeVars, pureVars, nonSession, objVars, histVars>>

\* The getter returns s: to the caller of client.session, or into request(),
\* which goes on to `self.session.request(method, url, **kwargs)`.
Returned(s) == IF InRequest THEN s ELSE None
AfterGet == IF InRequest THEN "req_send" ELSE "idle"

\* `if self.__session is None:` false: return self.__session, leaving the lock.
GetReturn(t) ==
    /\ pc[t] = "get_check"
    /\ session # None
    /\ readsSince' = [readsSince EXCEPT ![0] = @ \cup {session}]
    /\ readers' = readers \cup {t}
    /\ lockHolder' = None
    /\ tmp' = [tmp EXCEPT ![t] = Returned(session)]
    /\ pc' = [pc EXCEPT ![t] = AfterGet]
    /\ UNCHANGED <<session, local, finAlive, tFin>>
    /\ UNCHANGED <<madeSince, installed, keptOpen>>
    /\ UNCHANGED <<lifeVars, pureVars, nonSession, objVars>>

\* `if self.__session is None:` true: _init_session calls session_fn and
\* configures the new session.
GetFactory(t) ==
    /\ pc[t] = "get_check"
    /\ session = None
    /\ Construct("getter", 0)
    /\ tmp' = [tmp EXCEPT ![t] = nextId]
    /\ madeSince' = [madeSince EXCEPT ![0] = @ + 1]
    /\ pc' = [pc EXCEPT ![t] = "get_rearm"]
    /\ UNCHANGED <<lockHolder, session, local, finAlive, tFin>>
    /\ UNCHANGED <<closeCount, raised>>
    /\ UNCHANGED <<readsSince, installed, keptOpen, readers>>
    /\ UNCHANGED <<lifeVars, pureVars, nonSession>>

\* _init_session: register a new finalizer when the current one is dead.
Rearm(t) ==
    /\ pc[t] \in {"get_rearm", "lget_rearm"}
    /\ IF NeedsRearm
         THEN /\ finAlive' = TRUE
              /\ tFin' = [u \in Threads |-> IF tFin[u] = "current" THEN "old" ELSE tFin[u]]
         ELSE UNCHANGED <<finAlive, tFin>>
    /\ pc' = [pc EXCEPT ![t] = IF pc[t] = "get_rearm" THEN "get_store" ELSE "lget_store"]
    /\ UNCHANGED <<lockHolder, session, local, tmp>>
    /\ UNCHANGED <<lifeVars, pureVars, nonSession, objVars, histVars>>

\* self.__session = <new session>; return it, leaving the lock.
GetStore(t) ==
    /\ pc[t] = "get_store"
    /\ session' = tmp[t]
    /\ installed' = installed \cup {tmp[t]}
    /\ readsSince' = [readsSince EXCEPT ![0] = @ \cup {tmp[t]}]
    /\ readers' = readers \cup {t}
    /\ tmp' = [tmp EXCEPT ![t] = Returned(tmp[t])]
    /\ lockHolder' = None
    /\ pc' = [pc EXCEPT ![t] = AfterGet]
    /\ UNCHANGED <<local, finAlive, tFin>>
    /\ UNCHANGED <<madeSince, keptOpen>>
    /\ UNCHANGED <<lifeVars, pureVars, nonSession, objVars>>

\* request(): `.request(method, url, **kwargs)` on the session the getter
\* returned, outside of the lock.
ReqSend(t) ==
    /\ pc[t] = "req_send"
    /\ tmp' = [tmp EXCEPT ![t] = None]
    /\ pc' = [pc EXCEPT ![t] = "idle"]
    /\ UNCHANGED <<lockHolder, session, local, finAlive, tFin>>
    /\ UNCHANGED <<lifeVars, pureVars, nonSession, objVars, histVars>>

\* Thread-local mode: `return self._local.session` succeeds.
LocalGetReturn(t) ==
    /\ PerCaller /\ Live /\ pc[t] = "idle"
    /\ local[SlotOf(t)] # None
    /\ readsSince' = [readsSince EXCEPT ![t] = @ \cup {local[SlotOf(t)]}]
    /\ UNCHANGED <<madeSince, installed, keptOpen, readers>>
    /\ UNCHANGED <<lifeVars, pureVars, nonSession, objVars, syncVars>>

\* Thread-local mode: AttributeError, so _init_session builds a session.
LocalGetFactory(t) ==
    /\ PerCaller /\ Live /\ pc[t] = "idle"
    /\ local[SlotOf(t)] = None
    /\ Construct("getter", t)
    /\ tmp' = [tmp EXCEPT ![t] = nextId]
    /\ madeSince' = [madeSince EXCEPT ![t] = @ + 1]
    /\ pc' = [pc EXCEPT ![t] = "lget_rearm"]
    /\ UNCHANGED <<lockHolder, session, local, finAlive, tFin>>
    /\ UNCHANGED <<closeCount, raised>>
    /\ UNCHANGED <<readsSince, installed, keptOpen, readers>>
    /\ UNCHANGED <<lifeVars, pureVars, nonSession>>

\* self._local.session = <new session>; return self._local.session
LocalGetStore(t) ==
    /\ pc[t] = "lget_store"
    /\ local' = [local EXCEPT ![SlotOf(t)] = tmp[t]]
    /\ installed' = installed \cup {tmp[t]}
    /\ readsSince' = [readsSince EXCEPT ![t] = @ \cup {tmp[t]}]
    /\ tmp' = [tmp EXCEPT ![t] = None]
    /\ pc' = [pc EXCEPT ![t] = "idle"]
    /\ UNCHANGED <<lockHolder, session, finAlive, tFin>>
    /\ UNCHANGED <<madeSince, keptOpen, readers>>
    /\ UNCHANGED <<lifeVars, pureVars, nonSession, objVars>>

\* --------------------------------------------- RequestsClient.session (setter)

\* client.session = value, shared mode: the caller built `value`; the setter
\* waits for the lock.
SetAcquire(t) ==
    /\ Shared /\ Live /\ pc[t] = "idle"
    /\ LockFree
    /\ Construct("setter", 0)
    /\ tmp' = [tmp EXCEPT ![t] = nextId]
    /\ lockHolder' = t
    /\ pc' = [pc EXCEPT ![t] = "set_store"]
    /\ UNCHANGED <<session, local, finAlive, tFin>>
    /\ UNCHANGED <<closeCount, raised>>
    /\ UNCHANGED <<lifeVars, pureVars, nonSession, histVars>>

\* self.__session = value, leaving the lock.
SetStore(t) ==
    /\ pc[t] = "set_store"
    /\ session' = tmp[t]
    /\ installed' = installed \cup {tmp[t]}
    /\ readsSince' = [readsSince EXCEPT ![0] = {}]
    /\ madeSince' = [madeSince EXCEPT ![0] = 0]
    /\ readers' = {}
    /\ tmp' = [tmp EXCEPT ![t] = None]
    /\ lockHolder' = None
    /\ pc' = [pc EXCEPT ![t] = "idle"]
    /\ UNCHANGED <<local, finAlive, tFin>>
    /\ UNCHANGED <<keptOpen>>
    /\ UNCHANGED <<lifeVars, pureVars, nonSession, objVars>>

\* client.session = value, thread-local mode: self._local.session = value
LocalSet(t) ==
    /\ PerCaller /\ Live /\ pc[t] = "idle"
    /\ Construct("setter", t)
    /\ local' = [local EXCEPT ![SlotOf(t)] = nextId]
    /\ installed' = installed \cup {nextId}
    /\ readsSince' = [readsSince EXCEPT ![t] = {}]
    /\ madeSince' = [madeSince EXCEPT ![t] = 0]
    /\ UNCHANGED <<lockHolder, session, finAlive, pc, tmp, tFin>>
    /\ UNCHANGED <<closeCount, raised>>
    /\ UNCHANGED <<keptOpen, readers>>
    /\ UNCHANGED <<lifeVars, pureVars, nonSession>>

\* ------------------------------------------------------ RequestsClient.close

\* close() / __exit__: `finalizer = self.__finalizer`
CloseRead(t) ==
    /\ (Shared \/ PerCaller) /\ Live /\ pc[t] = "idle"
    /\ tFin' = [tFin EXCEPT ![t] = "current"]
    /\ pc' = [pc EXCEPT ![t] = "close_detach"]
    /\ UNCHANGED <<lockHolder, session, local, finAlive, tmp>>
    /\ UNCHANGED <<readsSince, madeSince, installed, keptOpen, readers>>
    /\ UNCHANGED <<lifeVars, pureVars, nonSession, objVars>>

\* `if finalizer.detach():` -- detach() returns the callback only when that
\* finalizer object is still alive, and kills it.
Detached(t) == tFin[t] = "current" /\ finAlive

CloseDetach(t) ==
    /\ pc[t] = "close_detach"
    /\ IF Detached(t)
         THEN /\ finAlive' = FALSE
              /\ pc' = [pc EXCEPT ![t] = IF Shared THEN "close_lock" ELSE "close_local"]
         ELSE /\ finAlive' = finAlive
              /\ pc' = [pc EXCEPT ![t] = "idle"]
    /\ tFin' = [tFin EXCEPT ![t] = "none"]
    /\ UNCHANGED <<lockHolder, session, local, tmp>>
    /\ UNCHANGED <<lifeVars, pureVars, nonSession, objVars, histVars>>

\* __close, shared mode: `with self._lock:`
CloseAcquire(t) ==
    /\ pc[t] = "close_lock"
    /\ LockFree
    /\ lockHolder' = t
    /\ pc' = [pc EXCEPT ![t] = "close_crit"]
    /\ UNCHANGED <<session, local, finAlive, tmp, tFin>>
    /\ UNCHANGED <<lifeVars, pureVars, nonSession, objVars, histVars>>

\* __close, shared mode, under the lock: close the session and empty the slot.
\* Calling close on None raises AttributeError out of close().
CloseCrit(t) ==
    /\ pc[t] = "close_crit"
    /\ IF HasSession
         THEN IF session # None
                THEN /\ CloseSession(session)
                     /\ session' = None
                     /\ readsSince' = [readsSince EXCEPT ![0] = {}]
                     /\ madeSince' = [madeSince EXCEPT ![0] = 0]
                     /\ readers' = {}
                     /\ raised' = raised
                ELSE /\ raised' = TRUE
                     /\ UNCHANGED <<closeCount, session, readsSince, madeSince, readers>>
         ELSE UNCHANGED <<closeCount, raised, session, readsSince, madeSince, readers>>
    /\ lockHolder' = None
    /\ pc' = [pc EXCEPT ![t] = "idle"]
    /\ UNCHANGED <<local, finAlive, tmp, tFin>>
    /\ UNCHANGED <<nextId, origin, madeFor>>
    /\ UNCHANGED <<installed, keptOpen>>
    /\ UNCHANGED <<lifeVars, pureVars, nonSession>>

\* __close, thread-local mode: self._local.session.close(); del self._local.session
\* -- the AttributeError of a missing attribute is swallowed.
CloseLocal(t) ==
    /\ pc[t] = "close_local"
    /\ IF local[SlotOf(t)] # None
         THEN /\ CloseSession(local[SlotOf(t)])
              /\ local' = [local EXCEPT ![SlotOf(t)] = None]
              /\ readsSince' = [readsSince EXCEPT ![t] = {}]
              /\ madeSince' = [madeSince EXCEPT ![t] = 0]
         ELSE UNCHANGED <<closeCount, local, readsSince, madeSince>>
    /\ pc' = [pc EXCEPT ![t] = "idle"]
    /\ UNCHANGED <<lockHolder, session, finAlive, tmp, tFin>>
    /\ UNCHANGED <<nextId, origin, madeFor, raised>>
    /\ UNCHANGED <<installed, keptOpen, readers>>
    /\ UNCHANGED <<lifeVars, pureVars, nonSession>>

\* ------------------------------------------------ RequestsClient: destruction

AllIdle == \A t \in Threads : pc[t] = "idle"

\* Every caller drops its reference to the client.
Drop ==
    /\ variant \in {"shared", "local"} /\ Live /\ AllIdle
    /\ phase' = "dropped"
    /\ UNCHANGED <<variant, pureVars, nonSession, objVars, syncVars, histVars>>

\* finalize(self, self.__close) keeps a bound method of the client, hence the
\* client itself, in the finalizer registry for as long as the finalizer is
\* alive.  Only a client whose finalizer is dead is reclaimed; __del__ then
\* calls close(), whose detach() finds the finalizer dead.
Reclaim ==
    /\ variant \in {"shared", "local"} /\ phase = "dropped"
    /\ ~finAlive
    /\ phase' = "collected"
    /\ UNCHANGED <<variant, pureVars, nonSession, objVars, syncVars, histVars>>

\* Interpreter exit: weakref.finalize runs every finalizer that is still alive
\* (atexit defaults to True), on the main thread (thread 1).
ExitSlot == IF Shared THEN session ELSE local[SlotOf(1)]

Exit ==
    /\ variant \in {"shared", "local"} /\ phase \in {"dropped", "collected"}
    /\ phase' = "exited"
    /\ finAlive' = FALSE
    /\ IF finAlive /\ ExitSlot # None
         THEN /\ CloseSession(ExitSlot)
              /\ IF Shared
                   THEN session' = None /\ local' = local
                   ELSE local' = [local EXCEPT ![SlotOf(1)] = None] /\ session' = session
              /\ readsSince' = [readsSince EXCEPT ![IF Shared THEN 0 ELSE 1] = {}]
              /\ madeSince' = [madeSince EXCEPT ![IF Shared THEN 0 ELSE 1] = 0]
              /\ readers' = {}
         ELSE UNCHANGED <<closeCount, session, local, readsSince, madeSince, readers>>
    /\ UNCHANGED <<lockHolder, pc, tmp, tFin>>
    /\ UNCHANGED <<nextId, origin, madeFor, raised>>
    /\ UNCHANGED <<variant, pureVars, nonSession, installed, keptOpen>>

\* ------------------------------------------------------ AsyncRequestsClient

Async == variant = "async"

\* httpx.AsyncClient.aclose(), called by the client: the state becomes CLOSED
\* before the call first suspends.
ACloseSession(s) ==
    /\ CloseSession(s)
    /\ sstate' = [sstate EXCEPT ![s] = "closed"]

\* get_session: `async with self._lock`, create on first use, return.  Nothing
\* in it suspends once the lock is free.
AGetSession(k) ==
    /\ Async /\ Live /\ pc[k] = "idle"
    /\ LockFree
    /\ IF session = None
         THEN /\ Construct("getter", 0)
              /\ session' = nextId
              /\ installed' = installed \cup {nextId}
         ELSE UNCHANGED <<nextId, origin, madeFor, session, installed>>
    /\ UNCHANGED <<lockHolder, local, finAlive, pc, tmp, tFin>>
    /\ UNCHANGED <<closeCount, raised>>
    /\ UNCHANGED <<readsSince, madeSince, readers, keptOpen>>
    /\ UNCHANGED <<lifeVars, pureVars, asyncVars, clockVars, rateVars>>

\* set_session(value, close), from `async with self._lock` to the first
\* suspension: with close and a current session, `await self.__session.aclose()`
\* suspends while the lock is held; otherwise the slot is assigned at once.
SetSessionBody(k, value, close) ==
    /\ IF close /\ session # None
         THEN /\ ACloseSession(session)
              /\ lockHolder' = k
              /\ tmp' = [tmp EXCEPT ![k] = value]
              /\ pc' = [pc EXCEPT ![k] = "set_await"]
              /\ UNCHANGED <<session, installed, keptOpen>>
         ELSE /\ session' = value
              /\ installed' = installed \cup {value}
              /\ keptOpen' = keptOpen \cup ({session} \ {None, value})
              /\ UNCHANGED <<lockHolder, tmp, pc, closeCount, sstate>>
    /\ UNCHANGED <<local, finAlive, tFin, raised>>
    /\ UNCHANGED <<readsSince, madeSince, readers>>
    /\ UNCHANGED <<lifeVars, pureVars, lastReq, warned, prevDispatch, lastDispatch, clockVars, rateVars>>

\* set_session with a session the caller has just built.
ASetSession(k, close) ==
    /\ Async /\ Live /\ pc[k] = "idle"
    /\ LockFree
    /\ Construct("setter", 0)
    /\ SetSessionBody(k, nextId, close)

\* set_session with the session that is already current (and still open).
ASetCurrent(k, close) ==
    /\ Async /\ Live /\ pc[k] = "idle"
    /\ LockFree
    /\ session # None
    /\ sstate[session] # "closed"
    /\ SetSessionBody(k, session, close)
    /\ UNCHANGED <<nextId, origin, madeFor>>

\* set_session resumes after aclose(): self.__session = value, leaving the lock.
ASetResume(k) ==
    /\ Async /\ pc[k] = "set_await"
    /\ session' = tmp[k]
    /\ installed' = installed \cup {tmp[k]}
    /\ tmp' = [tmp EXCEPT ![k] = None]
    /\ lockHolder' = None
    /\ pc' = [pc EXCEPT ![k] = "idle"]
    /\ UNCHANGED <<local, finAlive, tFin>>
    /\ UNCHANGED <<readsSince, madeSince, readers, keptOpen>>
    /\ UNCHANGED <<lifeVars, pureVars, objVars, asyncVars, clockVars, rateVars>>

\* aclose: `if self.__session is not None`
AAlwaysClose == TRUE
AHasSession == session # None

\* aclose / __aexit__, up to its suspension in `await self.__session.aclose()`.
\* Calling aclose on None raises AttributeError out of aclose().
AClose(k) ==
    /\ Async /\ Live /\ pc[k] = "idle"
    /\ LockFree
    /\ IF AHasSession
         THEN IF session # None
                THEN /\ ACloseSession(session)
                     /\ lockHolder' = k
                     /\ pc' = [pc EXCEPT ![k] = "aclose_await"]
                     /\ raised' = raised
                ELSE /\ raised' = TRUE
                     /\ UNCHANGED <<closeCount, sstate, lockHolder, pc>>
         ELSE UNCHANGED <<closeCount, sstate, lockHolder, pc, raised>>
    /\ UNCHANGED <<session, local, finAlive, tmp, tFin>>
    /\ UNCHANGED <<nextId, origin, madeFor>>
    /\ UNCHANGED histVars
    /\ UNCHANGED <<lifeVars, pureVars, lastReq, warned, prevDispatch, lastDispatch, clockVars, rateVars>>

\* aclose resumes: self.__session = None, leaving the lock.
ACloseResume(k) ==
    /\ Async /\ pc[k] = "aclose_await"
    /\ session' = None
    /\ lockHolder' = None
    /\ pc' = [pc EXCEPT ![k] = "idle"]
    /\ UNCHANGED <<local, finAlive, tmp, tFin>>
    /\ UNCHANGED histVars
    /\ UNCHANGED <<lifeVars, pureVars, objVars, asyncVars, clockVars, rateVars>>

\* ---------------------------------------------- AsyncRequestsClient.request

\* `await (await self.session).request(method, url, **kwargs)` with the lock
\* free: get_session creates the session on first use and the transport call
\* starts.  httpx refuses a CLOSED client with RuntimeError (the `finally`
\* still records _last_req); otherwise the client becomes OPENED and the
\* coroutine suspends in the transport.
SessionAndDispatch(k) ==
    LET s == IF session = None THEN nextId ELSE session IN
    /\ IF session = None
         THEN /\ Construct("getter", 0)
              /\ session' = nextId
              /\ installed' = installed \cup {nextId}
         ELSE UNCHANGED <<nextId, origin, madeFor, session, installed>>
    /\ IF session # None /\ sstate[s] = "closed"
         THEN /\ lastReq' = now
              /\ pc' = [pc EXCEPT ![k] = "idle"]
              /\ UNCHANGED <<sstate, prevDispatch, lastDispatch>>
         ELSE /\ sstate' = [sstate EXCEPT ![s] = "opened"]
              /\ prevDispatch' = lastDispatch
              /\ lastDispatch' = now
              /\ pc' = [pc EXCEPT ![k] = "req_io"]
              /\ lastReq' = lastReq
    /\ UNCHANGED <<lockHolder, local, finAlive, tmp, tFin>>
    /\ UNCHANGED <<closeCount, raised>>
    /\ UNCHANGED <<readsSince, madeSince, readers, keptOpen>>
    /\ UNCHANGED <<lifeVars, pureVars, warned, now, rateLimit, rateVars>>

\* `await self.session` has to wait while another coroutine holds the lock.
AfterGate(k) ==
    IF LockFree
      THEN SessionAndDispatch(k)
      ELSE /\ pc' = [pc EXCEPT ![k] = "req_lock"]
           /\ UNCHANGED <<lockHolder, session, local, finAlive, tmp, tFin>>
           /\ UNCHANGED <<lifeVars, pureVars, objVars, histVars, asyncVars, now, rateLimit, rateVars>>

\* The rate-limit gate of request(): `wait := rate_limit - elapsed`
GateWait == rateLimit - (now - lastReq)

\* request(): url_for, then the gate.  A positive wait suspends in
\* `await sleep(wait)`; otherwise the request goes on to the session.
AReqStart(k) ==
    /\ Async /\ Live /\ pc[k] = "idle"
    /\ IF rateLimit # 0 /\ GateWait > 0
         THEN /\ wake' = [wake EXCEPT ![k] = now + GateWait]
              /\ pc' = [pc EXCEPT ![k] = "req_sleep"]
              /\ UNCHANGED <<lockHolder, session, local, finAlive, tmp, tFin>>
              /\ UNCHANGED <<lifeVars, pureVars, objVars, histVars, asyncVars, now, rateLimit, rateVars>>
         ELSE /\ wake' = wake
              /\ AfterGate(k)

\* `await sleep(wait)` is over.
AReqWake(k) ==
    /\ Async /\ pc[k] = "req_sleep"
    /\ now >= wake[k]
    /\ wake' = wake
    /\ AfterGate(k)

\* The lock request() waited for is free.
AReqLocked(k) ==
    /\ Async /\ pc[k] = "req_lock"
    /\ LockFree
    /\ wake' = wake
    /\ SessionAndDispatch(k)

\* The transport call returns or raises: `finally: self._last_req = monotonic()`
AReqDone(k) ==
    /\ Async /\ pc[k] = "req_io"
    /\ lastReq' = now
    /\ pc' = [pc EXCEPT ![k] = "idle"]
    /\ UNCHANGED <<lockHolder, session, local, finAlive, tmp, tFin>>
    /\ UNCHANGED <<sstate, warned, prevDispatch, lastDispatch>>
    /\ UNCHANGED <<lifeVars, pureVars, objVars, histVars, clockVars, rateVars>>

\* __del__: `self.__session is not None and ..._state == ClientState.OPENED`
DelWarnsUnclosed == session # None /\ sstate[session] # "closed"
DelWarns == session # None /\ sstate[session] = "opened"

\* The last reference to the client is dropped; nothing else refers to an
\* AsyncRequestsClient, so __del__ runs.
ADestroy ==
    /\ Async /\ Live /\ AllIdle
    /\ warned' = DelWarns
    /\ phase' = "collected"
    /\ UNCHANGED <<variant, pureVars, objVars, syncVars, histVars>>
    /\ UNCHANGED <<sstate, lastReq, prevDispatch, lastDispatch, clockVars, rateVars>>

\* time.monotonic() advances: up to MaxTime, and beyond it while a call of
\* rate_limited's wrapper that began by then is in its sleep.
Tick ==
    /\ now < MaxTime \/ \E t \in Threads : pc[t] = "w_sleep" /\ now < wake[t]
    /\ now' = now + 1
    /\ UNCHANGED <<wake, rateLimit>>
    /\ UNCHANGED <<lifeVars, pureVars, objVars, syncVars, histVars, asyncVars, rateVars>>

\* ------------------------------------------------------------- rate_limited

\* rate_limited(interval) around a function, or rate_limited('attr') around a
\* method of a class: `is_attrgetter`.
RateLimited == variant \in {"rate", "rate_attr"}
IsAttrgetter == variant = "rate_attr"

\* The instances of the class whose method rate_limited('attr') wraps: thread
\* t calls the method on its own instance, whose attribute holds this interval.
InstanceInterval(t) == IF t = 1 THEN 1 ELSE RateLimit

\* `obj_interval = interval(args[0]) if is_attrgetter else interval`
FirstInstanceInterval(t) == IF IsAttrgetter THEN InstanceInterval(1) ELSE rateLimit
ObjInterval(t) == IF IsAttrgetter THEN InstanceInterval(t) ELSE rateLimit

\* `nonlocal last_call`: the one variable of the decorator's closure, whatever
\* instance the wrapper is called on.
PerInstanceLastCall(t) == IF stampers[2] = t THEN lastCall ELSE 0
LastCallSeen(t) == lastCall

\* `with lock:` can be entered.
RlLockIgnored == TRUE
RlLockFree == rlLock = None

\* `if elapsed < obj_interval:`
NeverWait(t, elapsed) == FALSE
MustWait(t, elapsed) == elapsed < ObjInterval(t)

\* wrapper() is called and comes to `with lock:`, where it may have to wait.
WEnter(t) ==
    /\ RateLimited /\ pc[t] = "idle"
    /\ now < MaxTime
    /\ pc' = [pc EXCEPT ![t] = "w_enter"]
    /\ UNCHANGED <<lockHolder, session, local, finAlive, tmp, tFin>>
    /\ UNCHANGED <<lifeVars, pureVars, objVars, histVars, asyncVars, clockVars, rateVars>>

\* wrapper(): `with lock:`, of a call from outside, whether or not it had to
\* wait (WEnter), or of a call made from within the wrapped request
\* (WReenter); threading.Lock is not reentrant.
WAcquire(t) ==
    /\ RateLimited /\ pc[t] \in {"idle", "w_enter", "w_reenter"}
    /\ pc[t] = "idle" => now < MaxTime
    /\ RlLockFree
    /\ rlLock' = t
    /\ pc' = [pc EXCEPT ![t] = "w_locked"]
    /\ UNCHANGED <<lastCall, stamped, prevAttempt, lastStart, delayLogged, failedAt, stampers>>
    /\ UNCHANGED <<lockHolder, session, local, finAlive, tmp, tFin>>
    /\ UNCHANGED <<lifeVars, pureVars, objVars, histVars, asyncVars, clockVars>>

\* `elapsed = monotonic() - last_call`; when too little time has passed,
\* `wait = obj_interval - elapsed` and the delay record is logged.
WMeasure(t) ==
    /\ pc[t] = "w_locked"
    /\ IF MustWait(t, now - LastCallSeen(t))
         THEN /\ tmp' = [tmp EXCEPT ![t] = ObjInterval(t) - (now - LastCallSeen(t))]
              /\ delayLogged' = [delayLogged EXCEPT ![t] = TRUE]
              /\ pc' = [pc EXCEPT ![t] = "w_wait"]
         ELSE /\ pc' = [pc EXCEPT ![t] = "w_stamp"]
              /\ UNCHANGED <<tmp, delayLogged>>
    /\ UNCHANGED <<rlLock, lastCall, stamped, prevAttempt, lastStart, failedAt, stampers>>
    /\ UNCHANGED <<lockHolder, session, local, finAlive, tFin>>
    /\ UNCHANGED <<lifeVars, pureVars, objVars, histVars, asyncVars, clockVars>>

\* `sleep(wait)` begins: it lasts at least `wait` seconds.
WSleep(t) ==
    /\ pc[t] = "w_wait"
    /\ wake' = [wake EXCEPT ![t] = now + tmp[t]]
    /\ tmp' = [tmp EXCEPT ![t] = None]
    /\ pc' = [pc EXCEPT ![t] = "w_sleep"]
    /\ UNCHANGED <<now, rateLimit, rateVars>>
    /\ UNCHANGED <<lockHolder, session, local, finAlive, tFin>>
    /\ UNCHANGED <<lifeVars, pureVars, objVars, histVars, asyncVars>>

\* `sleep(wait)` returns.
WWake(t) ==
    /\ pc[t] = "w_sleep"
    /\ now >= wake[t]
    /\ pc' = [pc EXCEPT ![t] = "w_stamp"]
    /\ UNCHANGED <<lockHolder, session, local, finAlive, tmp, tFin>>
    /\ UNCHANGED <<lifeVars, pureVars, objVars, histVars, asyncVars, clockVars, rateVars>>

\* The value `last_call = monotonic()` stores.
StaleStamp == lastCall
AttemptStamp == now

\* `last_call = monotonic()`
WStamp(t) ==
    /\ pc[t] = "w_stamp"
    /\ prevAttempt' = IF stamped THEN lastCall ELSE -1
    /\ lastCall' = AttemptStamp
    /\ stamped' = TRUE
    /\ stampers' = <<stampers[2], t>>
    /\ pc' = [pc EXCEPT ![t] = "w_call"]
    /\ UNCHANGED <<rlLock, lastStart, delayLogged, failedAt>>
    /\ UNCHANGED <<lockHolder, session, local, finAlive, tmp, tFin>>
    /\ UNCHANGED <<lifeVars, pureVars, objVars, histVars, asyncVars, clockVars>>

\* `return func(*args, **kwargs)`: the wrapped request starts.
WCall(t) ==
    /\ pc[t] = "w_call"
    /\ lastStart' = now
    /\ pc' = [pc EXCEPT ![t] = "w_func"]
    /\ UNCHANGED <<rlLock, lastCall, stamped, prevAttempt, delayLogged, failedAt, stampers>>
    /\ UNCHANGED <<lockHolder, session, local, finAlive, tmp, tFin>>
    /\ UNCHANGED <<lifeVars, pureVars, objVars, histVars, asyncVars, clockVars>>

\* Within the wrapped request, a hook or auth handler of the session calls
\* request() of the same client again, on the same thread: the wrapper is
\* entered once more and comes to its `with lock:`.
WReenter(t) ==
    /\ pc[t] = "w_func"
    /\ pc' = [pc EXCEPT ![t] = "w_reenter"]
    /\ UNCHANGED <<lockHolder, session, local, finAlive, tmp, tFin>>
    /\ UNCHANGED <<lifeVars, pureVars, objVars, histVars, asyncVars, clockVars, rateVars>>

\* `with lock:` is left, by return or by an exception: the lock is released.
HeldWhenRaised(t, ok) == IF ok THEN None ELSE t
LockAfter(t, ok) == None

\* The wrapped request returns or raises; `with lock:` is left either way.
WReturn(t) ==
    /\ pc[t] = "w_func"
    /\ \E ok \in BOOLEAN :
          /\ failedAt' = IF ok THEN failedAt ELSE lastCall
          /\ rlLock' = LockAfter(t, ok)
    /\ delayLogged' = [delayLogged EXCEPT ![t] = FALSE]
    /\ pc' = [pc EXCEPT ![t] = "idle"]
    /\ UNCHANGED <<lastCall, stamped, prevAttempt, lastStart, stampers>>
    /\ UNCHANGED <<lockHolder, session, local, finAlive, tmp, tFin>>
    /\ UNCHANGED <<lifeVars, pureVars, objVars, histVars, asyncVars, clockVars>>

\* ------------------------------------------------------------------ strings

\* s.startswith(p), s.endswith(p), s[1:]
StartsWith(s, p) == Len(s) >= Len(p) /\ SubSeq(s, 1, Len(p)) = p
EndsWith(s, p) == Len(s) >= Len(p) /\ SubSeq(s, Len(s) - Len(p) + 1, Len(s)) = p
DropFirst(s) == SubSeq(s, 2, Len(s))

DigitChars == <<"0", "1", "2", "3", "4", "5", "6", "7", "8", "9">>
IsDigit(c) == \E i \in 1..Len(DigitChars) : DigitChars[i] = c
DigitValue(c) == IF IsDigit(c) THEN (CHOOSE i \in 1..Len(DigitChars) : DigitChars[i] = c) - 1 ELSE 0

\* str(n) for n >= 0, as '{}'.format(n) renders it.
RECURSIVE IntToStr(_)
IntToStr(n) ==
    IF n < Len(DigitChars) THEN <<DigitChars[n + 1]>>
    ELSE IntToStr(n \div Len(DigitChars)) \o <<DigitChars[(n % Len(DigitChars)) + 1]>>

\* int(s) for a string of decimal digits.
RECURSIVE StrToInt(_)
StrToInt(s) ==
    IF s = <<>> THEN 0
    ELSE StrToInt(SubSeq(s, 1, Len(s) - 1)) * Len(DigitChars) + DigitValue(s[Len(s)])

\* fmt.format(arg) for a format string with one '{}' field.
RECURSIVE Format(_, _)
Format(fmt, arg) ==
    IF fmt = <<>> THEN <<>>
    ELSE IF StartsWith(fmt, <<"{", "}">>) THEN arg \o SubSeq(fmt, 3, Len(fmt))
    ELSE <<fmt[1]>> \o Format(Tail(fmt), arg)

\* '&'.join('k=v' ...): urlencode for keys and values that need no quoting.
RECURSIVE Urlencode(_)
Urlencode(params) ==
    IF params = <<>> THEN <<>>
    ELSE LET kv == params[1][1] \o <<"=">> \o params[1][2]
         IN IF Len(params) = 1 THEN kv ELSE kv \o <<"&">> \o Urlencode(Tail(params))

\* ---------------------------------------------------------------- URL parts

Schemes == {<<"h", "t", "t", "p">>, <<"w", "s">>}
Hosts == {<<"a">>, <<"b">>}

\* Values a caller assigns to port: None, an integer, or a string.
PortNone == [t |-> "none", n |-> 0, s |-> <<>>]
PortInt(n) == [t |-> "int", n |-> n, s |-> <<>>]
PortStr(s) == [t |-> "str", n |-> 0, s |-> s]
PortValues ==
    {PortNone, PortInt(8), PortInt(80), PortStr(<<"8">>), PortStr(<<"8", "0">>),
     PortStr(<<"x">>), PortStr(<<>>), PortStr(<<"8", "x">>)}

\* Values a caller assigns to path_prefix (None and '' behave alike).
PrefixValues == {<<>>, <<"v">>, <<"/", "v">>, <<"v", "/">>, <<"/">>}

Paths ==
    {<<>>, <<"x">>, <<"/", "x">>, <<"/", "/", "x">>,
     <<"h", "t", "t", "p", ":", "/", "/", "o">>}

ParamValues == {<<>>, << <<<<"k">>, <<"1">>>> >>}

UrlModel == variant = "url"

\* The port formatter `int(v) if v is not None else v` raises ValueError:
\* int() of a string that is not a decimal number (the strings here are made
\* of digits and letters: no sign, blank or underscore).
PortAccepted(v) == FALSE
PortRaises(v) ==
    v.t = "str" /\ (v.s = <<>> \/ \E i \in 1..Len(v.s) : ~IsDigit(v.s[i]))

\* What the port formatter returns.
PortFormatter(v) ==
    IF v.t = "none" THEN <<>>
    ELSE IF v.t = "int" THEN <<v.n>>
    ELSE <<StrToInt(v.s)>>

\* format_path_prefix
format_path_prefix(value) ==
    IF value # <<>>
      THEN LET v == IF StartsWith(value, <<"/">>) THEN DropFirst(value) ELSE value
           IN IF EndsWith(v, <<"/">>) THEN v ELSE v \o <<"/">>
      ELSE <<>>

\* UrlPart.__set__: `del instance.__dict__['_url_fmt']`
CacheKept(cache) == cache
CacheAfterSet(cache) == <<>>

\* The record of an assignment: the part, the value (of a port) and whether
\* the assignment raised.
PortOp(v, failed) ==
    [name |-> "set_port", raised |-> failed, value |-> v,
     path |-> <<>>, params |-> <<>>, relative |-> TRUE]
SetOp(name, failed) == [PortOp(PortNone, failed) EXCEPT !.name = name]

\* UrlPart.__set__ for scheme and host (no formatter).
SetScheme(v) ==
    /\ UrlModel
    /\ scheme' = v
    /\ urlFmt' = CacheAfterSet(urlFmt)
    /\ invalidated' = (invalidated \/ urlFmt # <<>>)
    /\ op' = SetOp("set_scheme", FALSE)
    /\ lastUrl' = <<>>
    /\ UNCHANGED <<host, port, path_prefix>>
    /\ UNCHANGED <<modelVars, reqVars, ctorVars>>

SetHost(v) ==
    /\ UrlModel
    /\ host' = v
    /\ urlFmt' = CacheAfterSet(urlFmt)
    /\ invalidated' = (invalidated \/ urlFmt # <<>>)
    /\ op' = SetOp("set_host", FALSE)
    /\ lastUrl' = <<>>
    /\ UNCHANGED <<scheme, port, path_prefix>>
    /\ UNCHANGED <<modelVars, reqVars, ctorVars>>

\* UrlPart.__set__ for port: the formatter runs first, and when it raises
\* nothing is stored and the cache is not touched.
SetPort(v) ==
    /\ UrlModel
    /\ IF PortRaises(v)
         THEN /\ op' = PortOp(v, TRUE)
              /\ UNCHANGED <<port, urlFmt, invalidated>>
         ELSE /\ port' = PortFormatter(v)
              /\ urlFmt' = CacheAfterSet(urlFmt)
              /\ invalidated' = (invalidated \/ urlFmt # <<>>)
              /\ op' = PortOp(v, FALSE)
    /\ lastUrl' = <<>>
    /\ UNCHANGED <<scheme, host, path_prefix>>
    /\ UNCHANGED <<modelVars, reqVars, ctorVars>>

\* UrlPart.__set__ for path_prefix.
SetPathPrefix(v) ==
    /\ UrlModel
    /\ path_prefix' = format_path_prefix(v)
    /\ urlFmt' = CacheAfterSet(urlFmt)
    /\ invalidated' = (invalidated \/ urlFmt # <<>>)
    /\ op' = SetOp("set_path_prefix", FALSE)
    /\ lastUrl' = <<>>
    /\ UNCHANGED <<scheme, host, port>>
    /\ UNCHANGED <<modelVars, reqVars, ctorVars>>

\* _url_fmt, computed: `if self.port` leaves out a port that is None (or 0).
ComputeUrlFmt ==
    LET host_port == IF port # <<>> /\ port # <<0>>
                       THEN host \o <<":">> \o IntToStr(port[1]) ELSE host
    IN scheme \o <<":", "/", "/">> \o host_port \o <<"/", "{", "}">>

\* self._url_fmt: the cached value when there is one.
CachedUrlFmt == IF urlFmt # <<>> THEN urlFmt[1] ELSE ComputeUrlFmt

\* The same operations step by step, for threads that share the client: the
\* cached_property looks _url_fmt up in the instance's __dict__, computes it
\* when it is missing and stores it; UrlPart.__set__ stores the value and then
\* deletes the cached format.  tmp[t] holds the value thread t has computed.
UrlRace == variant = "url_race"

\* self._url_fmt, not cached: the function body runs and reads the parts.
FmtCompute(t) ==
    /\ UrlRace /\ pc[t] = "idle"
    /\ urlFmt = <<>>
    /\ tmp' = [tmp EXCEPT ![t] = ComputeUrlFmt]
    /\ pc' = [pc EXCEPT ![t] = "fmt_store"]
    /\ UNCHANGED <<lockHolder, session, local, finAlive, tFin>>
    /\ UNCHANGED <<lifeVars, pureVars, nonSession, objVars, histVars>>

\* cached_property: `cache[self.attrname] = val`
FmtStore(t) ==
    /\ pc[t] = "fmt_store"
    /\ urlFmt' = <<tmp[t]>>
    /\ tmp' = [tmp EXCEPT ![t] = None]
    /\ pc' = [pc EXCEPT ![t] = "idle"]
    /\ UNCHANGED <<scheme, host, port, path_prefix, lastUrl, op, invalidated>>
    /\ UNCHANGED <<lockHolder, session, local, finAlive, tFin>>
    /\ UNCHANGED <<lifeVars, reqVars, ctorVars, nonSession, objVars, histVars>>

\* UrlPart.__set__: `instance.__dict__[self.name] = value` (v is the value the
\* formatter returned).
PartStore(t, name, v) ==
    /\ UrlRace /\ pc[t] = "idle"
    /\ scheme' = IF name = "scheme" THEN v ELSE scheme
    /\ host' = IF name = "host" THEN v ELSE host
    /\ port' = IF name = "port" THEN v ELSE port
    /\ pc' = [pc EXCEPT ![t] = "part_del"]
    /\ UNCHANGED <<path_prefix, urlFmt, lastUrl, op, invalidated>>
    /\ UNCHANGED <<lockHolder, session, local, finAlive, tmp, tFin>>
    /\ UNCHANGED <<lifeVars, reqVars, ctorVars, nonSession, objVars, histVars>>

\* UrlPart.__set__: `del instance.__dict__['_url_fmt']`
PartDel(t) ==
    /\ pc[t] = "part_del"
    /\ urlFmt' = CacheAfterSet(urlFmt)
    /\ pc' = [pc EXCEPT ![t] = "idle"]
    /\ UNCHANGED <<scheme, host, port, path_prefix, lastUrl, op, invalidated>>
    /\ UNCHANGED <<lockHolder, session, local, finAlive, tmp, tFin>>
    /\ UNCHANGED <<lifeVars, reqVars, ctorVars, nonSession, objVars, histVars>>

\* `path[1:] if path.startswith('/') else path`
KeepPath(path) == path
StripSlash(path) == IF StartsWith(path, <<"/">>) THEN DropFirst(path) ELSE path

\* BaseClient.url_for only: `not relative and path.startswith(('http://', 'https://'))`
IsAbsoluteUrl(path) ==
    \/ StartsWith(path, <<"h", "t", "t", "p", ":", "/", "/">>)
    \/ StartsWith(path, <<"h", "t", "t", "p", "s", ":", "/", "/">>)

\* url_for(path, params, relative)
UrlForValue(path, params, relative) ==
    LET url == IF cfg.kind = "async" /\ ~relative /\ IsAbsoluteUrl(path)
                 THEN path
                 ELSE Format(CachedUrlFmt,
                             IF relative THEN path_prefix \o StripSlash(path) ELSE StripSlash(path))
    IN IF params # <<>> THEN url \o <<"?">> \o Urlencode(params) ELSE url

UrlFor(path, params, relative) ==
    /\ UrlModel
    /\ lastUrl' = UrlForValue(path, params, relative)
    /\ urlFmt' = IF cfg.kind = "async" /\ ~relative /\ IsAbsoluteUrl(path)
                   THEN urlFmt ELSE <<CachedUrlFmt>>
    /\ op' = [name |-> "url_for", raised |-> FALSE, value |-> PortNone,
              path |-> path, params |-> params, relative |-> relative]
    /\ UNCHANGED <<scheme, host, port, path_prefix, invalidated>>
    /\ UNCHANGED <<modelVars, reqVars, ctorVars>>

\* ---------------------------------------------------------------- request()

\* An Optional[bool] argument: None, True or False.
Tri == {"unset", "true", "false"}

\* Keyword arguments a caller may give the constructor beyond the named ones.
KwPairs == {<<"auth", "basic">>, <<"timeout", "5">>}

\* Status codes of the responses the transport returns.
Statuses == {200, 304, 399, 400, 404, 599, 600}

\* Constructor arguments: the client class, exc, raise_errors, **kwargs, the
\* log_data argument of AsyncRequestsClient, whether the installed httpx
\* raises from raise_for_status() for every non-2xx status (0.19 and later)
\* or for 4xx/5xx only, log_params, and whether a rate_limit is given.
Configs ==
    [kind : {"sync", "async"}, exc : BOOLEAN, raise_errors : BOOLEAN,
     kwargs : SUBSET KwPairs, log_data : {"False", "True"}, non2xx : BOOLEAN,
     log_params : {TRUE}, rate_limit : {FALSE}]

\* The configurations that differ in what is logged.
LogConfigs ==
    [kind : {"sync", "async"}, exc : {FALSE}, raise_errors : {TRUE},
     kwargs : {{}}, log_data : {"False"}, non2xx : {TRUE},
     log_params : BOOLEAN, rate_limit : BOOLEAN]

\* The configurations that differ in what reaches the transport and exc.
SendConfigs ==
    [kind : {"sync", "async"}, exc : BOOLEAN, raise_errors : {TRUE},
     kwargs : {{}}, log_data : {"False"}, non2xx : {TRUE},
     log_params : BOOLEAN, rate_limit : {FALSE}]

Methods == {<<"G", "E", "T">>, <<"P", "O", "S", "T">>}

\* Arguments of one request() call and what happens around it: the transport
\* raises its library's error or returns a response with a status, and the
\* call comes too early for the rate limit (`waits`) or not.
Calls ==
    [raise_errors : Tri, log : BOOLEAN, fails : BOOLEAN, status : Statuses,
     method : {<<"G", "E", "T">>}, path : {<<"x">>}, params : {<<>>},
     relative : {TRUE}, log_params : {"unset"}, waits : {FALSE}]

\* The calls that differ in what is logged.
LogCalls ==
    [raise_errors : {"unset"}, log : BOOLEAN, fails : {FALSE}, status : {200},
     method : Methods, path : {<<"x">>, <<"/", "x">>}, params : ParamValues,
     relative : BOOLEAN, log_params : Tri, waits : BOOLEAN]

\* The calls that differ in what reaches the transport and exc.
SendCalls ==
    [raise_errors : {"unset"}, log : BOOLEAN, fails : BOOLEAN, status : {200, 404},
     method : {<<"G", "E", "T">>}, path : {<<"x">>}, params : ParamValues,
     relative : BOOLEAN, log_params : Tri, waits : {FALSE}]

NoResult ==
    [kind |-> "none", what |-> "none", reached |-> FALSE,
     url |-> <<>>, params |-> <<>>, excUrl |-> <<>>]

\* What **kwargs of the constructor become in self._session_kwargs:
\* AsyncRequestsClient hands log_data to BaseClient.__init__, which has no such
\* parameter and collects it in its own **kwargs.
SessionKwargs(c) ==
    IF c.kind = "sync" THEN c.kwargs ELSE c.kwargs \cup {<<"log_data", c.log_data>>}

\* `raise_errors or (raise_errors is None and self.raise_errors)`
RaiseOnCode(c, a) ==
    a.raise_errors = "true" \/ (a.raise_errors = "unset" /\ c.raise_errors)

\* `400 <= resp.status_code < 600`
IsErrorStatus(st) == 400 <= st /\ st < 600

\* resp.raise_for_status() raises: requests does for 4xx/5xx, httpx for 4xx/5xx
\* or, from 0.19 on, for every status outside 2xx.
RaiseForStatus(c, st) ==
    \/ IsErrorStatus(st)
    \/ c.kind = "async" /\ c.non2xx /\ ~(200 <= st /\ st < 300)

\* `if log: self._log_req(...)` raises TypeError: AsyncRequestsClient.request
\* passes eight arguments to BaseClient._log_req, which takes six.
LogRaises(c, a) == a.log /\ c.kind = "async"

\* The transport raised: `raise self.exc(e, url)` when exc is set, else the
\* exception propagates.
FailureSwallowed(excSet) == "response"
TransportFailure(excSet) == IF excSet THEN "exc_cause" ELSE "cause"

\* The transport returned a response.
StatusOutcome(c, a) ==
    IF c.exc
      THEN IF RaiseOnCode(c, a) /\ IsErrorStatus(a.status) THEN "exc_response" ELSE "response"
      ELSE IF RaiseOnCode(c, a) /\ RaiseForStatus(c, a.status) THEN "status_error" ELSE "response"

\* _log_req: `params and (log_params or (log_params is None and self.log_params))`
LogsParams(c, a) ==
    a.params # <<>> /\ (a.log_params = "true" \/ (a.log_params = "unset" /\ c.log_params))

\* `url = self.url_for(path, relative=relative)`: the URL request() keeps for
\* the transport and for exc; _log_req rebinds only its own parameter `url`.
LoggedUrlSent(c, a) ==
    UrlForValue(a.path, IF a.log /\ LogsParams(c, a) THEN a.params ELSE <<>>, a.relative)
TransportUrl(c, a) == UrlForValue(a.path, <<>>, a.relative)

\* request(), from the log record to return or raise: session.request(method,
\* url, **kwargs) gets the URL and, within **kwargs, the caller's params; exc
\* gets the same URL.
ReqOutcome(c, a) ==
    LET what == IF LogRaises(c, a) THEN "TypeError"
                ELSE IF a.fails THEN TransportFailure(c.exc)
                ELSE StatusOutcome(c, a)
    IN [kind |-> IF what = "response" THEN "returned" ELSE "raised",
        what |-> what,
        reached |-> ~LogRaises(c, a),
        url |-> IF LogRaises(c, a) THEN <<>> ELSE TransportUrl(c, a),
        params |-> IF LogRaises(c, a) THEN <<>> ELSE a.params,
        excUrl |-> IF what \in {"exc_cause", "exc_response"} THEN TransportUrl(c, a) ELSE <<>>]

\* The record of the rate limit's delay: rate_limited.wrapper writes it
\* whenever it has to wait; AsyncRequestsClient.request only `if log:`.
DelayRecord(c) ==
    IF c.kind = "sync"
      THEN <<"Rate limited function 'request' is being delayed {:,.3f} seconds">>
      ELSE <<"Delaying request {wait:.2f} seconds due to {rate_limit=}">>
DelayLogged(c, a) == c.kind = "sync" \/ a.log

\* _log_req: '{} -> {}'.format(method, url)
RequestRecord(c, a) ==
    a.method \o <<" ", "-", ">", " ">>
             \o UrlForValue(a.path, IF LogsParams(c, a) THEN a.params ELSE <<>>, a.relative)

\* What one request() call logs, in order.
LogRecords(c, a) ==
    (IF c.rate_limit /\ a.waits /\ DelayLogged(c, a) THEN <<DelayRecord(c)>> ELSE <<>>)
      \o (IF a.log /\ ~LogRaises(c, a) THEN <<RequestRecord(c, a)>> ELSE <<>>)

Requesting == variant = "request"

\* One request() call (through the rate limiter when there is one); url_for
\* caches the base-URL format, self.session creates the session on first use.
Request(a) ==
    /\ Requesting
    /\ call' = a
    /\ result' = ReqOutcome(cfg, a)
    /\ records' = LogRecords(cfg, a)
    /\ urlFmt' = IF cfg.kind = "async" /\ ~a.relative /\ IsAbsoluteUrl(a.path)
                   THEN urlFmt ELSE <<CachedUrlFmt>>
    /\ IF ~LogRaises(cfg, a) /\ ~rsession
         THEN rsession' = TRUE /\ factoryArgs' = SessionKwargs(cfg)
         ELSE UNCHANGED <<rsession, factoryArgs>>
    /\ UNCHANGED <<cfg, scheme, host, port, path_prefix, lastUrl, op, invalidated>>
    /\ UNCHANGED <<modelVars, ctorVars>>

\* client.session / get_session() outside of a request.
ReqGetSession ==
    /\ Requesting /\ ~rsession
    /\ rsession' = TRUE
    /\ factoryArgs' = SessionKwargs(cfg)
    /\ UNCHANGED <<cfg, call, result, records, modelVars, urlVars, ctorVars>>

\* close() / aclose(): the next use creates a new session.
ReqClose ==
    /\ Requesting /\ rsession
    /\ rsession' = FALSE
    /\ UNCHANGED <<cfg, call, result, records, factoryArgs, modelVars, urlVars, ctorVars>>

\* --------------------------------------------------------------- user agent

\* Format strings are sequences of pieces; a piece written "{name}" is a
\* replacement field, any other piece is literal text.
USER_AGENT_LIBS ==
    <<"{py_impl}", "/", "{py_ver}", " ", "{lib_name}", "/", "{lib_ver}",
      " RequestsClient/", "{rc_ver}">>
USER_AGENT_BASIC == <<"{script}", "/", "{script_ver}", " ">> \o USER_AGENT_LIBS
USER_AGENT_SCRIPT_OS ==
    <<"{script}", "/", "{script_ver}", " (", "{os_name}", " ", "{os_rel}", "; ",
      "{arch}", ") ">> \o USER_AGENT_LIBS
USER_AGENT_SCRIPT_CONTACT ==
    <<"{script}", "/", "{script_ver}", " (", "{url}", "; ", "{email}", ") ">>
        \o USER_AGENT_LIBS
USER_AGENT_SCRIPT_URL ==
    <<"{script}", "/", "{script_ver}", " (", "{url}", ") ">> \o USER_AGENT_LIBS
USER_AGENT_SCRIPT_URL_OS ==
    <<"{script}", "/", "{script_ver}", " (", "{url}", "; ", "{os_name}", " ",
      "{os_rel}", "; ", "{arch}", ") ">> \o USER_AGENT_LIBS
USER_AGENT_SCRIPT_CONTACT_OS ==
    <<"{script}", "/", "{script_ver}", " (", "{url}", "; ", "{email}", "; ",
      "{os_name}", " ", "{os_rel}", "; ", "{arch}", ") ">> \o USER_AGENT_LIBS
USER_AGENT_FIREFOX ==
    <<"Mozilla/5.0 (", "{os_info}", "; rv:", "{firefox_ver}",
      ") Gecko/20100101 Firefox/", "{firefox_ver}">>

UaFormats ==
    {USER_AGENT_BASIC, USER_AGENT_SCRIPT_OS, USER_AGENT_SCRIPT_CONTACT,
     USER_AGENT_SCRIPT_URL, USER_AGENT_SCRIPT_URL_OS, USER_AGENT_SCRIPT_CONTACT_OS,
     USER_AGENT_FIREFOX}

\* __url__ and __author_email__ of the top-level script, and the url= and
\* email= keyword arguments: "None", a value, or (keywords only) not given.
UrlValues == {"None", "hxxp://example.org"}
EmailValues == {"None", "example@fake.org"}
Unset == "unset"
UaEnvs == [url : UrlValues, email : EmailValues]
UaKwargs == [url : UrlValues \cup EmailValues \cup {Unset}, email : EmailValues \cup {Unset}]
NoUaKwargs == [url |-> Unset, email |-> Unset]

\* `info`, after info.update(kwargs); the values the host provides are the
\* examples the source gives for them.
UaInfo(httpx, env, kw) ==
    [script |-> "some_script", script_ver |-> "1.0",
     url |-> IF kw.url # Unset THEN kw.url ELSE env.url,
     email |-> IF kw.email # Unset THEN kw.email ELSE env.email,
     os_name |-> "Windows", os_rel |-> "10",
     os_info |-> "Windows NT 10.0; Win64; x64", arch |-> "x64",
     py_impl |-> "CPython", py_ver |-> "3.7.4",
     lib_name |-> IF httpx THEN "httpx" ELSE "Requests",
     lib_ver |-> IF httpx THEN "0.27.0" ELSE "2.22.0",
     rc_ver |-> "2020.01.18", firefox_ver |-> "125.0", chrome_ver |-> "124.0.0.0"]

\* The replacement field a piece of a format string names ("" for literal text).
FieldOf(piece) ==
    CASE piece = "{script}" -> "script" [] piece = "{script_ver}" -> "script_ver"
      [] piece = "{url}" -> "url" [] piece = "{email}" -> "email"
      [] piece = "{os_name}" -> "os_name" [] piece = "{os_rel}" -> "os_rel"
      [] piece = "{os_info}" -> "os_info" [] piece = "{arch}" -> "arch"
      [] piece = "{py_impl}" -> "py_impl" [] piece = "{py_ver}" -> "py_ver"
      [] piece = "{lib_name}" -> "lib_name" [] piece = "{lib_ver}" -> "lib_ver"
      [] piece = "{rc_ver}" -> "rc_ver" [] piece = "{firefox_ver}" -> "firefox_ver"
      [] piece = "{chrome_ver}" -> "chrome_ver" [] OTHER -> ""

\* ua_format.format(**info)
RECURSIVE UaRender(_, _)
UaRender(fmt, info) ==
    IF fmt = <<>> THEN <<>>
    ELSE <<IF FieldOf(Head(fmt)) # "" THEN info[FieldOf(Head(fmt))] ELSE Head(fmt)>>
             \o UaRender(Tail(fmt), info)

\* The `if downgrade:` block: the format and the url actually rendered.
NoDowngrade(ua_format, url, email) == [fmt |-> ua_format, url |-> url]
Downgrade(ua_format, url, email) ==
    LET fmt1 == IF (url = "None" \/ email = "None") /\ ua_format = USER_AGENT_SCRIPT_CONTACT_OS
                  THEN USER_AGENT_SCRIPT_URL_OS ELSE ua_format
        url1 == IF url = "None" /\ email # "None" THEN email ELSE url
        fmt2 == IF url = "None" /\ email = "None" /\ fmt1 = USER_AGENT_SCRIPT_URL_OS
                  THEN USER_AGENT_SCRIPT_OS ELSE fmt1
    IN [fmt |-> fmt2, url |-> url1]

generate_user_agent(ua_format, downgrade, httpx, env, kw) ==
    LET info == UaInfo(httpx, env, kw)
        d == IF downgrade THEN Downgrade(ua_format, info.url, info.email)
             ELSE [fmt |-> ua_format, url |-> info.url]
    IN UaRender(d.fmt, [info EXCEPT !.url = d.url])

\* -------------------------------------------------------------- constructor

LowerChars ==
    <<"a", "b", "c", "d", "e", "f", "g", "h", "i", "j", "k", "l", "m",
      "n", "o", "p", "q", "r", "s", "t", "u", "v", "w", "x", "y", "z">>
UpperChars ==
    <<"A", "B", "C", "D", "E", "F", "G", "H", "I", "J", "K", "L", "M",
      "N", "O", "P", "Q", "R", "S", "T", "U", "V", "W", "X", "Y", "Z">>

\* [a-zA-Z]
IsLetter(c) == \E i \in 1..Len(LowerChars) : LowerChars[i] = c \/ UpperChars[i] = c

\* str.lower(), str.upper()
LowerChar(c) ==
    IF \E i \in 1..Len(UpperChars) : UpperChars[i] = c
      THEN LowerChars[CHOOSE i \in 1..Len(UpperChars) : UpperChars[i] = c] ELSE c
UpperChar(c) ==
    IF \E i \in 1..Len(LowerChars) : LowerChars[i] = c
      THEN UpperChars[CHOOSE i \in 1..Len(LowerChars) : LowerChars[i] = c] ELSE c
Lower(s) == IF s = <<>> THEN <<>> ELSE [i \in 1..Len(s) |-> LowerChar(s[i])]
Upper(s) == IF s = <<>> THEN <<>> ELSE [i \in 1..Len(s) |-> UpperChar(s[i])]

\* s.find(c) + 1: the position of the first c in s, 0 when there is none.
Find(s, c) ==
    IF \E i \in 1..Len(s) : s[i] = c
      THEN CHOOSE i \in 1..Len(s) : s[i] = c /\ \A j \in 1..(i - 1) : s[j] # c
      ELSE 0

\* re.match('^[a-zA-Z]+://', s): the number of letters matched, 0 for no match.
SchemeLen(s) ==
    LET n == Find(s, ":") - 1
    IN IF /\ n >= 1 /\ Len(s) >= n + 3
          /\ \A i \in 1..n : IsLetter(s[i])
          /\ s[n + 2] = "/" /\ s[n + 3] = "/"
         THEN n ELSE 0

\* urlparse(s) of a string the pattern matches, made of letters, digits, ':'
\* and '/': .scheme, .hostname, .port (<<>> for None) and .path.
UrlParse(s) ==
    LET n == SchemeLen(s)
        rest == SubSeq(s, n + 4, Len(s))
        slash == Find(rest, "/")
        netloc == IF slash = 0 THEN rest ELSE SubSeq(rest, 1, slash - 1)
        colon == Find(netloc, ":")
        digits == IF colon = 0 THEN <<>> ELSE SubSeq(netloc, colon + 1, Len(netloc))
    IN [scheme |-> Lower(SubSeq(s, 1, n)),
        hostname |-> Lower(IF colon = 0 THEN netloc ELSE SubSeq(netloc, 1, colon - 1)),
        port |-> IF digits = <<>> THEN PortNone ELSE PortInt(StrToInt(digits)),
        path |-> IF slash = 0 THEN <<>> ELSE SubSeq(rest, slash, Len(rest))]

\* bool(port) for None, an integer or a string.
PortTruthy(v) == (v.t = "int" /\ v.n # 0) \/ (v.t = "str" /\ v.s # <<>>)

\* `port = port or parsed.port`, `path_prefix if nopath else path_prefix or parsed.path`
ParsedPortOnly(given, parsed) == parsed
PortChoice(given, parsed) == IF PortTruthy(given) THEN given ELSE parsed
PrefixChoice(given, parsed, nopath) ==
    IF nopath THEN given ELSE IF given # <<>> THEN given ELSE parsed

\* `scheme or parsed.scheme` and `scheme or 'http'` (<<>> stands for None and '').
SchemeChoice(given, parsed) == IF given # <<>> THEN given ELSE parsed

\* `self.host and ':' in self.host and port`
NeverConflicting(h, p) == FALSE
ConflictingArgs(h, p) == h # <<>> /\ Find(h, ":") > 0 /\ PortTruthy(p)

\* The values __init__ settles on before it stores them.
InitValues(a) ==
    LET isUrl == a.host_or_url # <<>> /\ SchemeLen(a.host_or_url) > 0
        parsed == UrlParse(a.host_or_url)
        sch == IF isUrl THEN SchemeChoice(a.scheme, parsed.scheme) ELSE a.scheme
    IN [isUrl |-> isUrl,
        host |-> IF isUrl THEN parsed.hostname ELSE a.host_or_url,
        port |-> IF isUrl THEN PortChoice(a.port, parsed.port) ELSE a.port,
        scheme |-> SchemeChoice(sch, <<"h", "t", "t", "p">>),
        path_prefix |-> IF isUrl THEN PrefixChoice(a.path_prefix, parsed.path, a.nopath)
                        ELSE a.path_prefix]

\* `self._headers = headers or {}` and `self._headers.setdefault('User-Agent', ...)`
UaAlwaysSet(hdrs, ua) ==
    {h \in hdrs : h[1] # "User-Agent"} \cup {<<"User-Agent", ua>>}
SetDefaultUa(hdrs, ua) ==
    IF \E h \in hdrs : h[1] = "User-Agent" THEN hdrs ELSE hdrs \cup {<<"User-Agent", ua>>}

InitHeaders(a) ==
    IF a.user_agent_fmt # <<>>
      THEN SetDefaultUa(a.headers,
               generate_user_agent(a.user_agent_fmt, TRUE, a.kind = "async", a.env, NoUaKwargs))
      ELSE a.headers

\* What BaseClient.__init__ and the first part of RequestsClient.__init__ store.
BaseAttrs ==
    {"host", "scheme", "port", "path_prefix", "raise_errors", "_headers", "_verify",
     "log_lvl", "log_params", "_session_kwargs", "exc"}

\* The instance's __dict__ when __init__ returns.
InitAttrs(a) ==
    IF a.kind = "sync"
      THEN BaseAttrs \cup {"_session_fn", "_lock", "_local", "__session", "__finalizer"}
             \cup (IF a.rate_limit THEN {"request"} ELSE {})
      ELSE BaseAttrs \cup {"_session_fn", "_lock", "__session", "_rate_limit", "_last_req"}

Constructing == variant = "ctor"

NoOutcome ==
    [op |-> "none", raised |-> "none", target |-> "none",
     path |-> <<>>, kwargs |-> {}, value |-> <<>>, downgrade |-> FALSE, kw |-> NoUaKwargs,
     fwd |-> [args |-> <<>>, kwargs |-> {}]]

\* __init__, for arguments whose port is None, an integer or a decimal string.
\* When the arguments conflict it raises ValueError right after `self.host = ...`.
ClientInit ==
    /\ Constructing /\ built = "no"
    /\ LET v == InitValues(args)
       IN IF ~v.isUrl /\ ConflictingArgs(v.host, v.port)
            THEN /\ built' = "raised"
                 /\ host' = v.host
                 /\ attrs' = {"host"}
                 /\ outcome' = [NoOutcome EXCEPT !.op = "init", !.raised = "ValueError"]
                 /\ UNCHANGED <<scheme, port, path_prefix, headers, instRequest>>
            ELSE /\ built' = "ok"
                 /\ host' = v.host
                 /\ scheme' = v.scheme
                 /\ port' = PortFormatter(v.port)
                 /\ path_prefix' = format_path_prefix(v.path_prefix)
                 /\ headers' = InitHeaders(args)
                 /\ attrs' = InitAttrs(args)
                 /\ instRequest' = IF "request" \in InitAttrs(args) THEN "rate_limited" ELSE "none"
                 /\ outcome' = [NoOutcome EXCEPT !.op = "init"]
    /\ urlFmt' = CacheAfterSet(urlFmt)
    /\ UNCHANGED <<args, lastUrl, op, invalidated, modelVars, reqVars>>

\* The object is destroyed. RequestsClient.__del__ calls close(), which
\* tolerates a missing finalizer; AsyncRequestsClient.__del__ reads
\* self.__session, which raises AttributeError when __init__ did not get that
\* far (the interpreter reports it and goes on).
DelRaises ==
    IF args.kind = "async" /\ "__session" \notin attrs THEN "AttributeError" ELSE "none"

Destroy ==
    /\ Constructing /\ built \in {"ok", "raised"} /\ outcome.op # "del"
    /\ outcome' = [NoOutcome EXCEPT !.op = "del", !.raised = DelRaises]
    /\ UNCHANGED <<args, built, attrs, headers, instRequest, urlVars, modelVars, reqVars>>

\* `self._headers = headers or {}`: the client keeps the mapping it was given,
\* the same object, unless that mapping is empty, when it keeps a new dict.
KeepsCallerMapping(hdrs) == hdrs # {}

\* The mapping the caller passed as `headers`, as it is now: `_headers` of the
\* client when the constructor got as far as keeping it.
CallerMapping ==
    IF built = "ok" /\ KeepsCallerMapping(args.headers) THEN headers ELSE args.headers

\* The User-Agent formats a second client is built with.
OtherFormats == {<<>>, USER_AGENT_SCRIPT_CONTACT_OS, USER_AGENT_FIREFOX}

\* A second client of the same class is built from the caller's mapping, with
\* its own User-Agent format: `headers or {}`, then setdefault on what it kept.
\* outcome.kwargs is the second client's `_headers`.
ClientInitAgain ==
    /\ Constructing /\ built = "ok" /\ outcome.op # "init2"
    /\ \E fmt \in OtherFormats :
         LET kept == InitHeaders([args EXCEPT !.headers = CallerMapping,
                                              !.user_agent_fmt = fmt])
         IN /\ headers' = IF KeepsCallerMapping(CallerMapping) THEN kept ELSE headers
            /\ outcome' = [NoOutcome EXCEPT !.op = "init2", !.path = fmt, !.kwargs = kept]
    /\ UNCHANGED <<args, built, attrs, instRequest, urlVars, modelVars, reqVars>>

\* The verb aliases, by attribute name.
Verbs ==
    {<<"g", "e", "t">>, <<"p", "u", "t">>, <<"p", "o", "s", "t">>,
     <<"d", "e", "l", "e", "t", "e">>, <<"o", "p", "t", "i", "o", "n", "s">>,
     <<"h", "e", "a", "d">>, <<"p", "a", "t", "c", "h">>}

\* RequestMethod.__set_name__: `self.method = name.upper()`
VerbMethod(name) == Upper(name)

\* What `instance.request` is: the instance's own attribute when it has one
\* (the rate-limited wrapper of __init__, or a callable assigned later), else
\* the class's method, which a subclass may have overridden.
BaseRequest ==
    IF args.kind = "sync" THEN "RequestsClient.request" ELSE "AsyncRequestsClient.request"
ClassRequest == IF args.override THEN "Subclass.request" ELSE BaseRequest
BoundToBase == BaseRequest
BoundToClass == ClassRequest
InstanceRequest == IF instRequest # "none" THEN instRequest ELSE ClassRequest

\* partial(f, method)(*args, **kwargs) calls f(method, *args, **kwargs).
Partial(method, given, kw) == [args |-> <<method>> \o given, kwargs |-> kw]

\* client.<verb>(path, **kw): RequestMethod.__get__ returns
\* partial(instance.request, self.method), which is then called.
AliasCall(name, path, kw) ==
    /\ Constructing /\ built = "ok" /\ outcome.op # "del"
    /\ outcome' = [NoOutcome EXCEPT !.op = "alias", !.target = InstanceRequest,
                                    !.value = name, !.path = path, !.kwargs = kw,
                                    !.fwd = Partial(VerbMethod(name), <<path>>, kw)]
    /\ UNCHANGED <<args, built, attrs, headers, instRequest, urlVars, modelVars, reqVars>>

\* client.request = f: an ordinary instance attribute (request is not a descriptor).
AssignRequest ==
    /\ Constructing /\ built = "ok" /\ outcome.op # "del"
    /\ instRequest' = "assigned"
    /\ attrs' = attrs \cup {"request"}
    /\ outcome' = [NoOutcome EXCEPT !.op = "assign"]
    /\ UNCHANGED <<args, built, headers, urlVars, modelVars, reqVars>>

\* del client.request: the class's method shows again.
DeleteRequest ==
    /\ Constructing /\ built = "ok" /\ outcome.op # "del" /\ instRequest # "none"
    /\ instRequest' = "none"
    /\ attrs' = attrs \ {"request"}
    /\ outcome' = [NoOutcome EXCEPT !.op = "delattr"]
    /\ UNCHANGED <<args, built, headers, urlVars, modelVars, reqVars>>

\* pickle.dumps(client): RequestsClient defines no __getstate__ or __reduce__,
\* so the instance's __dict__ is pickled as it is, and it holds a
\* threading.Lock (_lock) or a threading.local (_local), which cannot be
\* pickled; nor can the wrapper function rate_limited defines locally.
Unpicklable(name) ==
    \/ name = "_lock" /\ ~args.local_sessions
    \/ name = "_local" /\ args.local_sessions
    \/ name = "request" /\ instRequest = "rate_limited"

Pickle ==
    /\ Constructing /\ built = "ok" /\ outcome.op # "del" /\ args.kind = "sync"
    /\ outcome' = [NoOutcome EXCEPT !.op = "pickle",
                     !.raised = IF \E n \in attrs : Unpicklable(n) THEN "TypeError" ELSE "none"]
    /\ UNCHANGED <<args, built, attrs, headers, instRequest, urlVars, modelVars, reqVars>>

\* generate_user_agent(ua_format, downgrade, **kwargs) called directly.
GenerateUserAgent(ua_format, downgrade, kw) ==
    /\ variant = "ua"
    /\ outcome' = [NoOutcome EXCEPT !.op = "generate_user_agent",
                     !.value = generate_user_agent(ua_format, downgrade, FALSE, args.env, kw),
                     !.path = ua_format, !.downgrade = downgrade, !.kw = kw]
    /\ UNCHANGED <<args, built, attrs, headers, instRequest, urlVars, modelVars, reqVars>>

\* Ways of writing host_or_url: a URL made of a scheme, a host, an optional
\* port and a path (in upper case when `shout`), or a bare host[:port].
UrlForms ==
    {[url |-> TRUE, scheme |-> sc, host |-> <<"a">>, port |-> p, path |-> pa, shout |-> sh] :
        sc \in Schemes, p \in {PortNone, PortInt(12)},
        pa \in {<<>>, <<"/">>, <<"/", "t">>, <<"/", "t", "/">>}, sh \in BOOLEAN}
    \cup {[url |-> FALSE, scheme |-> <<>>, host |-> <<"a">>, port |-> p, path |-> <<>>,
           shout |-> FALSE] : p \in {PortNone, PortInt(12)}}

\* The string a caller passes for such a form.
RenderUrl(u) ==
    LET hostport == IF u.port = PortNone THEN u.host ELSE u.host \o <<":">> \o IntToStr(u.port.n)
        text == IF u.url THEN u.scheme \o <<":", "/", "/">> \o hostport ELSE hostport
    IN (IF u.shout THEN Upper(text) ELSE text) \o u.path

\* RequestsClient('a'): every optional argument at its default.
DefaultArgs ==
    [kind |-> "sync", host_or_url |-> <<"a">>,
     parts |-> [url |-> FALSE, scheme |-> <<>>, host |-> <<"a">>, port |-> PortNone,
                path |-> <<>>, shout |-> FALSE],
     port |-> PortNone, scheme |-> <<>>, path_prefix |-> <<>>, nopath |-> FALSE,
     headers |-> {}, user_agent_fmt |-> USER_AGENT_SCRIPT_CONTACT_OS,
     env |-> [url |-> "None", email |-> "None"],
     rate_limit |-> FALSE, local_sessions |-> FALSE, override |-> FALSE]

\* Arguments that vary in how the URL parts are given.
UrlArgs ==
    {[DefaultArgs EXCEPT !.kind = k, !.host_or_url = RenderUrl(u), !.parts = u, !.port = p,
                         !.scheme = sc, !.path_prefix = pp, !.nopath = np] :
        k \in {"sync", "async"}, u \in UrlForms,
        p \in {PortNone, PortInt(0), PortInt(34), PortStr(<<"3", "4">>)},
        sc \in {<<>>} \cup Schemes, pp \in {<<>>, <<"/", "p">>}, np \in BOOLEAN}

\* Arguments that vary in what decides how `request` resolves and whether the
\* object can be pickled.
ObjectArgs ==
    {[DefaultArgs EXCEPT !.kind = k, !.host_or_url = RenderUrl(u), !.parts = u,
                         !.rate_limit = rl, !.local_sessions = ls, !.override = ov] :
        k \in {"sync", "async"}, rl \in BOOLEAN, ls \in BOOLEAN, ov \in BOOLEAN,
        u \in {f \in UrlForms : ~f.shout /\ f.path = <<>> /\ f.port = PortNone}}

\* Arguments that vary in the headers and the User-Agent format.
HeaderSets ==
    {{}, {<<"User-Agent", <<"test">>>>}, {<<"Dnt", <<"1">>>>},
     {<<"Dnt", <<"1">>>>, <<"User-Agent", <<"test">>>>}, {<<"user-agent", <<"test">>>>}}
HeaderArgs ==
    {[DefaultArgs EXCEPT !.kind = k, !.headers = h, !.user_agent_fmt = f, !.env = e] :
        k \in {"sync", "async"}, h \in HeaderSets,
        f \in {<<>>, USER_AGENT_SCRIPT_CONTACT_OS, USER_AGENT_FIREFOX}, e \in UaEnvs}

\* ----------------------------------------------------------- specification

\* The state right after the constructor, whatever the client.
InitObjects ==
    /\ phase = "live"
    /\ nextId = 1
    /\ origin = [s \in Ids |-> "none"]
    /\ madeFor = [s \in Ids |-> 0]
    /\ closeCount = [s \in Ids |-> 0]
    /\ raised = FALSE
    /\ lockHolder = None
    /\ session = None
    /\ local = [t \in Threads |-> None]
    /\ finAlive = TRUE
    /\ pc = [t \in Threads |-> "idle"]
    /\ tmp = [t \in Threads |-> None]
    /\ tFin = [t \in Threads |-> "none"]
    /\ readsSince = [i \in 0..NThreads |-> {}]
    /\ madeSince = [i \in 0..NThreads |-> 0]
    /\ readers = {}
    /\ installed = {}
    /\ keptOpen = {}
    /\ sstate = [s \in Ids |-> "unopened"]
    /\ lastReq = 0
    /\ warned = FALSE
    /\ prevDispatch = -1
    /\ lastDispatch = -1
    /\ now = 0
    /\ wake = [t \in Threads |-> 0]
    /\ rlLock = None
    /\ lastCall = 0
    /\ stamped = FALSE
    /\ prevAttempt = -1
    /\ lastStart = -1
    /\ delayLogged = [t \in Threads |-> FALSE]
    /\ failedAt = -1
    /\ stampers = <<0, 0>>
    /\ call = [raise_errors |-> "unset", log |-> FALSE, fails |-> FALSE, status |-> 200,
               method |-> <<"G", "E", "T">>, path |-> <<"x">>, params |-> <<>>,
               relative |-> TRUE, log_params |-> "unset", waits |-> FALSE]
    /\ records = <<>>
    /\ result = NoResult
    /\ rsession = FALSE
    /\ factoryArgs = {}
    /\ urlFmt = <<>>
    /\ lastUrl = <<>>
    /\ op = SetOp("init", FALSE)
    /\ invalidated = FALSE
    /\ outcome = NoOutcome

\* The object RequestsClient('a') leaves behind.
InitBuilt ==
    /\ args = DefaultArgs
    /\ built = "ok"
    /\ attrs = InitAttrs(DefaultArgs)
    /\ headers = InitHeaders(DefaultArgs)
    /\ instRequest = "none"

\* Session lifecycle: a RequestsClient (shared or thread-local sessions) or an
\* AsyncRequestsClient, built without a rate limit.
\* The constructor arguments the session and rate-limit models leave at their
\* defaults.
DefaultConfig ==
    [kind |-> "sync", exc |-> FALSE, raise_errors |-> TRUE,
     kwargs |-> {}, log_data |-> "False", non2xx |-> TRUE,
     log_params |-> TRUE, rate_limit |-> FALSE]

\* The URL parts of a client built as RequestsClient('a').
DefaultUrlParts ==
    /\ scheme = <<"h", "t", "t", "p">>
    /\ host = <<"a">>
    /\ port = <<>>
    /\ path_prefix = <<>>

Init ==
    /\ variant \in {"shared", "local", "async"}
    /\ rateLimit = 0
    /\ DefaultUrlParts
    /\ cfg = DefaultConfig
    /\ InitBuilt
    /\ InitObjects

Next ==
    \/ \E t \in Threads : GetAcquire(t)
    \/ \E t \in Threads : GetReturn(t)
    \/ \E t \in Threads : GetFactory(t)
    \/ \E t \in Threads : Rearm(t)
    \/ \E t \in Threads : GetStore(t)
    \/ \E t \in Threads : LocalGetReturn(t)
    \/ \E t \in Threads : LocalGetFactory(t)
    \/ \E t \in Threads : LocalGetStore(t)
    \/ \E t \in Threads : SetAcquire(t)
    \/ \E t \in Threads : SetStore(t)
    \/ \E t \in Threads : LocalSet(t)
    \/ \E t \in Threads : CloseRead(t)
    \/ \E t \in Threads : CloseDetach(t)
    \/ \E t \in Threads : CloseAcquire(t)
    \/ \E t \in Threads : CloseCrit(t)
    \/ \E t \in Threads : CloseLocal(t)
    \/ Drop
    \/ Reclaim
    \/ Exit
    \/ \E k \in Threads : AGetSession(k)
    \/ \E k \in Threads, close \in BOOLEAN : ASetSession(k, close)
    \/ \E k \in Threads, close \in BOOLEAN : ASetCurrent(k, close)
    \/ \E k \in Threads : ASetResume(k)
    \/ \E k \in Threads : AClose(k)
    \/ \E k \in Threads : ACloseResume(k)
    \/ \E k \in Threads : AReqStart(k)
    \/ \E k \in Threads : AReqLocked(k)
    \/ \E k \in Threads : AReqDone(k)
    \/ ADestroy

Spec == Init /\ [][Next]_vars

\* One thread using a RequestsClient in shared mode: reads and assignments of
\* `session` and close() calls, one after the other.
InitSeq ==
    /\ variant = "shared"
    /\ rateLimit = 0
    /\ DefaultUrlParts
    /\ cfg = DefaultConfig
    /\ InitBuilt
    /\ InitObjects

NextSeq ==
    \/ GetAcquire(1)
    \/ GetReturn(1)
    \/ GetFactory(1)
    \/ Rearm(1)
    \/ GetStore(1)
    \/ SetAcquire(1)
    \/ SetStore(1)
    \/ CloseRead(1)
    \/ CloseDetach(1)
    \/ CloseAcquire(1)
    \/ CloseCrit(1)

SpecSeq == InitSeq /\ [][NextSeq]_vars

\* request() and close() calls on one RequestsClient in shared mode, from
\* several threads.
InitDispatch ==
    /\ variant = "dispatch"
    /\ rateLimit = 0
    /\ DefaultUrlParts
    /\ cfg = DefaultConfig
    /\ InitBuilt
    /\ InitObjects

NextDispatch ==
    \/ \E t \in Threads : GetAcquire(t)
    \/ \E t \in Threads : GetReturn(t)
    \/ \E t \in Threads : GetFactory(t)
    \/ \E t \in Threads : Rearm(t)
    \/ \E t \in Threads : GetStore(t)
    \/ \E t \in Threads : ReqSend(t)
    \/ \E t \in Threads : CloseRead(t)
    \/ \E t \in Threads : CloseDetach(t)
    \/ \E t \in Threads : CloseAcquire(t)
    \/ \E t \in Threads : CloseCrit(t)

SpecDispatch == InitDispatch /\ [][NextDispatch]_vars

\* An AsyncRequestsClient built with rate_limit=RateLimit, under a running clock.
InitAsyncRate ==
    /\ variant = "async"
    /\ rateLimit = RateLimit
    /\ DefaultUrlParts
    /\ cfg = DefaultConfig
    /\ InitBuilt
    /\ InitObjects

NextAsyncRate ==
    \/ \E k \in Threads : AGetSession(k)
    \/ \E k \in Threads : AClose(k)
    \/ \E k \in Threads : ACloseResume(k)
    \/ \E k \in Threads : AReqStart(k)
    \/ \E k \in Threads : AReqWake(k)
    \/ \E k \in Threads : AReqLocked(k)
    \/ \E k \in Threads : AReqDone(k)
    \/ Tick

SpecAsyncRate == InitAsyncRate /\ [][NextAsyncRate]_vars

\* A function wrapped by rate_limited(RateLimit), called from several threads
\* under a running clock (RequestsClient.request when rate_limit is given).
InitRate ==
    /\ variant = "rate"
    /\ rateLimit = RateLimit
    /\ DefaultUrlParts
    /\ cfg = DefaultConfig
    /\ InitBuilt
    /\ InitObjects

NextRate ==
    \/ \E t \in Threads : WAcquire(t)
    \/ \E t \in Threads : WMeasure(t)
    \/ \E t \in Threads : WSleep(t)
    \/ \E t \in Threads : WWake(t)
    \/ \E t \in Threads : WStamp(t)
    \/ \E t \in Threads : WCall(t)
    \/ \E t \in Threads : WReturn(t)
    \/ Tick

SpecRate == InitRate /\ [][NextRate]_vars

\* The same, with requests that call request() again from within.
NextReenter ==
    \/ \E t \in Threads : WAcquire(t)
    \/ \E t \in Threads : WMeasure(t)
    \/ \E t \in Threads : WSleep(t)
    \/ \E t \in Threads : WWake(t)
    \/ \E t \in Threads : WStamp(t)
    \/ \E t \in Threads : WCall(t)
    \/ \E t \in Threads : WReenter(t)
    \/ \E t \in Threads : WReturn(t)
    \/ Tick

SpecReenter == InitRate /\ [][NextReenter]_vars

\* The same under the scheduling a liveness property needs: the clock runs, a
\* thread inside the wrapper goes on, every wrapped request ends, and a thread
\* that waits for the lock gets it if the lock is free again and again.
NextFair ==
    \/ \E t \in Threads : WEnter(t)
    \/ \E t \in Threads : WAcquire(t)
    \/ \E t \in Threads : WMeasure(t)
    \/ \E t \in Threads : WSleep(t)
    \/ \E t \in Threads : WWake(t)
    \/ \E t \in Threads : WStamp(t)
    \/ \E t \in Threads : WCall(t)
    \/ \E t \in Threads : WReturn(t)
    \/ Tick

SpecRateFair ==
    /\ InitRate
    /\ [][NextFair]_vars
    /\ WF_vars(Tick)
    /\ \A t \in Threads :
          /\ SF_vars(pc[t] = "w_enter" /\ WAcquire(t))
          /\ WF_vars(WMeasure(t))
          /\ WF_vars(WSleep(t))
          /\ WF_vars(WWake(t))
          /\ WF_vars(WStamp(t))
          /\ WF_vars(WCall(t))
          /\ WF_vars(WReturn(t))

\* A method wrapped by rate_limited('attr') at class level, called from
\* several threads, each on its own instance of the class.
InitRateAttr ==
    /\ variant = "rate_attr"
    /\ rateLimit = 0
    /\ DefaultUrlParts
    /\ cfg = DefaultConfig
    /\ InitBuilt
    /\ InitObjects

SpecRateAttr == InitRateAttr /\ [][NextRate]_vars

\* request() on a client of either class, whatever its constructor arguments,
\* the arguments of the call and the behaviour of the transport.
InitReq ==
    /\ variant = "request"
    /\ rateLimit = 0
    /\ DefaultUrlParts
    /\ cfg \in Configs
    /\ InitBuilt
    /\ InitObjects

NextReq ==
    \/ \E a \in Calls : Request(a)
    \/ ReqGetSession
    \/ ReqClose

SpecReq == InitReq /\ [][NextReq]_vars

\* request() on clients and with arguments that differ in what is logged.
InitLog ==
    /\ variant = "request"
    /\ rateLimit = 0
    /\ DefaultUrlParts
    /\ cfg \in LogConfigs
    /\ InitBuilt
    /\ InitObjects

NextLog ==
    \/ \E a \in LogCalls : Request(a)
    \/ ReqGetSession
    \/ ReqClose

SpecLog == InitLog /\ [][NextLog]_vars

\* request() on clients and with arguments that differ in the URL and the
\* options the transport and exc are given.
InitSend ==
    /\ variant = "request"
    /\ rateLimit = 0
    /\ DefaultUrlParts
    /\ cfg \in SendConfigs
    /\ InitBuilt
    /\ InitObjects

NextSend ==
    \/ \E a \in SendCalls : Request(a)
    \/ ReqGetSession
    \/ ReqClose

SpecSend == InitSend /\ [][NextSend]_vars

\* The URL parts of a client of either class after construction (every part
\* is stored through its UrlPart descriptor, no base-URL format is cached),
\* then assignments to the parts and url_for calls in any order.
InitUrl ==
    /\ variant = "url"
    /\ rateLimit = 0
    /\ cfg \in {DefaultConfig, [DefaultConfig EXCEPT !.kind = "async"]}
    /\ scheme \in Schemes
    /\ host \in Hosts
    /\ port \in {PortFormatter(v) : v \in {w \in PortValues : ~PortRaises(w)}}
    /\ path_prefix \in {format_path_prefix(v) : v \in PrefixValues}
    /\ InitBuilt
    /\ InitObjects

NextUrl ==
    \/ \E v \in Schemes : SetScheme(v)
    \/ \E v \in Hosts : SetHost(v)
    \/ \E v \in PortValues : SetPort(v)
    \/ \E v \in PrefixValues : SetPathPrefix(v)
    \/ \E path \in Paths, params \in ParamValues, relative \in BOOLEAN :
           UrlFor(path, params, relative)

SpecUrl == InitUrl /\ [][NextUrl]_vars

\* Threads that assign scheme, host and port of one client while others call
\* url_for on it.
InitUrlRace ==
    /\ variant = "url_race"
    /\ rateLimit = 0
    /\ DefaultUrlParts
    /\ cfg = DefaultConfig
    /\ InitBuilt
    /\ InitObjects

NextUrlRace ==
    \/ \E t \in Threads : FmtCompute(t)
    \/ \E t \in Threads : FmtStore(t)
    \/ \E t \in Threads, v \in Schemes : PartStore(t, "scheme", v)
    \/ \E t \in Threads, v \in Hosts : PartStore(t, "host", v)
    \/ \E t \in Threads, v \in {PortNone, PortInt(8)} : PartStore(t, "port", PortFormatter(v))
    \/ \E t \in Threads : PartDel(t)

SpecUrlRace == InitUrlRace /\ [][NextUrlRace]_vars

\* The URL parts of an object not built yet: no attribute is set.
NoUrlParts ==
    /\ scheme = <<>>
    /\ host = <<>>
    /\ port = <<>>
    /\ path_prefix = <<>>

InitUnbuilt ==
    /\ variant = "ctor"
    /\ rateLimit = 0
    /\ cfg = DefaultConfig
    /\ NoUrlParts
    /\ built = "no"
    /\ attrs = {}
    /\ headers = {}
    /\ instRequest = "none"
    /\ InitObjects

\* Construction from a URL or a host, with and without explicit parts, then
\* the destruction of the object the constructor returned or gave up.
InitCtor ==
    /\ args \in UrlArgs
    /\ InitUnbuilt

NextCtor ==
    \/ ClientInit
    \/ Destroy

SpecCtor == InitCtor /\ [][NextCtor]_vars

\* An object's `request` and its verb aliases, pickling, destruction.
InitObj ==
    /\ args \in ObjectArgs
    /\ InitUnbuilt

NextObj ==
    \/ ClientInit
    \/ \E name \in Verbs, path \in {<<"/">>, <<"/", "t">>}, kw \in SUBSET {<<"data", "test">>} :
           AliasCall(name, path, kw)
    \/ AssignRequest
    \/ DeleteRequest
    \/ Pickle
    \/ Destroy

SpecObj == InitObj /\ [][NextObj]_vars

\* The default headers a client is built with.
InitHdr ==
    /\ args \in HeaderArgs
    /\ InitUnbuilt

NextHdr ==
    \/ ClientInit
    \/ Destroy

SpecHdr == InitHdr /\ [][NextHdr]_vars

\* Two clients built from one headers mapping.
NextHdrShared ==
    \/ ClientInit
    \/ ClientInitAgain
    \/ Destroy

SpecHdrShared == InitHdr /\ [][NextHdrShared]_vars

\* generate_user_agent, called by a script that defines __url__ and
\* __author_email__ or not.
InitUa ==
    /\ variant = "ua"
    /\ rateLimit = 0
    /\ cfg = DefaultConfig
    /\ DefaultUrlParts
    /\ args \in {[DefaultArgs EXCEPT !.env = e] : e \in UaEnvs}
    /\ built = "ok"
    /\ attrs = InitAttrs(args)
    /\ headers = InitHeaders(args)
    /\ instRequest = "none"
    /\ InitObjects

NextUa ==
    \E f \in UaFormats, d \in BOOLEAN, kw \in UaKwargs : GenerateUserAgent(f, d, kw)

SpecUa == InitUa /\ [][NextUa]_vars

\* ------------------------------------------------------------------ claims

\* C1: with shared sessions, between two resets of the shared slot (a close,
\* or an assignment through the setter) every read of client.session, from
\* whichever thread and in whatever interleaving, returns the one session that
\* is current, and session_fn has run exactly once for a session the getter
\* built.
C1_SharedReadsOneSession ==
    Shared =>
        /\ Cardinality(readsSince[0]) <= 1
        /\ readsSince[0] \subseteq {session}
        /\ madeSince[0] <= 1
        /\ \A s \in readsSince[0] : origin[s] = "getter" => madeSince[0] = 1

\* Every thread has read the same getter-built session.
C1_Witness ==
    /\ Shared
    /\ readers = Threads
    /\ \E s \in readsSince[0] : origin[s] = "getter" /\ readsSince[0] = {s}

\* C2: with thread-local sessions, every thread reads only a session of its
\* own slot -- so the sessions of distinct threads are pairwise distinct -- and
\* all reads of one thread return the same session until that thread closes or
\* replaces it.
C2_LocalSessionsPerThread ==
    PerCaller =>
        \A t \in Threads :
            /\ Cardinality(readsSince[t]) <= 1
            /\ \A s \in readsSince[t] : madeFor[s] = t /\ local[t] = s
            /\ \A u \in Threads \ {t} : readsSince[t] \cap readsSince[u] = {}

\* Every thread has read a getter-built session of its own.
C2_Witness ==
    /\ PerCaller
    /\ \A t \in Threads : \E s \in readsSince[t] : origin[s] = "getter"

\* Sessions some method still holds in a local variable, not yet stored.
InHand == {tmp[t] : t \in Threads} \ {None}

\* C3: with shared sessions, the current session has never been closed (a
\* request after close() gets a fresh one); no getter-built session is closed
\* twice; a current getter-built session is covered by a live finalizer or by
\* a close() already past detach(), so the close() that follows its creation
\* closes it; and as long as the setter is not used, every getter-built session
\* that is no longer current has been closed exactly once.
C3_FreshSessionAfterClose ==
    Shared =>
        /\ \A s \in Ids : origin[s] = "getter" => closeCount[s] <= 1
        /\ session # None => closeCount[session] = 0
        /\ (session # None /\ origin[session] = "getter") =>
               (finAlive \/ \E t \in Threads : pc[t] \in {"close_lock", "close_crit"})
        /\ (\A s \in Ids : origin[s] # "setter") =>
               \A s \in Ids : (origin[s] = "getter" /\ s # session /\ s \notin InHand)
                                  => closeCount[s] = 1

\* A second getter-built session is current, under a live finalizer, after
\* the first was closed.
C3_Witness ==
    /\ Shared
    /\ session # None /\ origin[session] = "getter" /\ finAlive
    /\ \E s \in Ids \ {session} : origin[s] = "getter" /\ closeCount[s] = 1

\* C4: close() and aclose() never raise, and a call that finds no session
\* (none was ever created, or the call before it emptied the slot) invokes no
\* Session's close: every close()/aclose() that returns leaves its slot empty,
\* and one that finds the slot empty, or the finalizer already detached,
\* changes no close count.
C4_CloseIdempotent ==
    /\ [](~raised)
    /\ [][\A t \in Threads :
            /\ (pc[t] = "close_crit" /\ pc'[t] = "idle")
                   => (session' = None /\ (session = None => closeCount' = closeCount))
            /\ (pc[t] = "close_local" /\ pc'[t] = "idle")
                   => (local'[t] = None /\ (local[t] = None => closeCount' = closeCount))
            /\ (pc[t] = "close_detach" /\ pc'[t] = "idle") => closeCount' = closeCount
            /\ (pc[t] = "aclose_await" /\ pc'[t] = "idle") => session' = None
            /\ (AClose(t) /\ session = None) => (closeCount' = closeCount /\ pc' = pc)
       ]_vars

\* close() has returned on a shared-mode client that never had a session.
C4_Witness ==
    /\ Shared /\ Live /\ AllIdle
    /\ installed = {} /\ nextId = 1
    /\ ~finAlive /\ ~raised

\* The sessions that are current in some slot.
CurrentSessions == ({session} \cup {local[t] : t \in Threads}) \ {None}

\* C5: every session that was current and has been replaced (other than by
\* set_session(..., close=False)) is closed: at most one unclosed session
\* belongs to a slot.
C5_SupersededIsClosed ==
    \A s \in installed \ keptOpen : s \notin CurrentSessions => closeCount[s] >= 1

\* C6: with thread-local sessions, a close() that returns to a thread holding
\* a session has closed that session, and a step of one thread closes no
\* session of another thread's slot.
C6_CloseClosesOwnSession ==
    [][PerCaller =>
         \A t \in Threads :
            /\ (pc[t] \in {"close_detach", "close_local"} /\ pc'[t] = "idle" /\ local[t] # None)
                   => closeCount'[local[t]] = closeCount[local[t]] + 1
            /\ pc'[t] # pc[t] =>
                   \A u \in Threads \ {t} :
                       local[u] # None => closeCount'[local[u]] = closeCount[local[u]]
      ]_vars

\* C7: once a shared-mode client that was dropped without closing its session
\* is gone and the interpreter has exited, that session has been closed.
C7_DroppedClientSessionClosed ==
    (Shared /\ phase = "exited") => (session = None \/ closeCount[session] >= 1)

C9_RateLimitedSpacing ==
    RateLimited =>
        /\ (stamped /\ prevAttempt >= 0) => lastCall - prevAttempt >= rateLimit
        /\ \A t \in Threads :
              /\ (pc[t] = "w_func" /\ prevAttempt >= 0) => lastStart - prevAttempt >= rateLimit
              /\ pc[t] \in {"w_wait", "w_sleep"} => delayLogged[t]

\* A request that had to wait is running, after an earlier attempt.
C9_Witness ==
    /\ RateLimited
    /\ \E t \in Threads : pc[t] = "w_func" /\ delayLogged[t] /\ prevAttempt >= 0

\* C10: any two transport dispatches of a rate-limited AsyncRequestsClient
\* start at least RateLimit apart.
C10_AsyncDispatchSpacing ==
    (Async /\ rateLimit > 0 /\ prevDispatch >= 0) => lastDispatch - prevDispatch >= rateLimit

\* C11: on a rate-limited RequestsClient at most one thread at a time is
\* inside the wrapped request, and that thread holds the limiter's lock.
C11_OneRequestAtATime ==
    RateLimited =>
        /\ Cardinality({t \in Threads : pc[t] \in {"w_call", "w_func"}}) <= 1
        /\ \A t \in Threads : pc[t] \in {"w_call", "w_func"} => rlLock = t

\* A thread is inside the wrapped request after another request completed,
\* while the other thread is free to call.
C11_Witness ==
    /\ RateLimited
    /\ \E t \in Threads :
          /\ pc[t] = "w_func" /\ prevAttempt >= 0
          /\ \E u \in Threads \ {t} : pc[u] = "idle"

\* C12: the step that follows the wait stores the current time as attempt
\* timestamp, before the wrapped request runs; the timestamp therefore stands
\* whether or not the request then fails, and a request that follows a failed
\* attempt starts at least RateLimit after the failed attempt's timestamp.
C12_StampBeforeRequest ==
    /\ [](RateLimited =>
            /\ \A t \in Threads : pc[t] = "w_func" => (stamped /\ lastCall <= lastStart)
            /\ failedAt >= 0 => (stamped /\ failedAt <= lastCall)
            /\ \A t \in Threads :
                  (pc[t] = "w_func" /\ failedAt >= 0) => lastStart - failedAt >= rateLimit)
    /\ [][\A t \in Threads :
            /\ (pc[t] = "w_stamp" /\ pc'[t] = "w_call") => lastCall' = now
            /\ (pc[t] = "w_func" /\ pc'[t] = "idle") => lastCall' = lastCall
       ]_vars

\* A request that had to wait runs after an attempt that failed.
C12_Witness ==
    /\ RateLimited
    /\ \E t \in Threads : pc[t] = "w_func" /\ delayLogged[t] /\ failedAt >= 0 /\ failedAt = prevAttempt

\* Coroutine k is suspended in an await: the aclose() of the session inside
\* set_session or aclose, the rate-limit sleep, the wait for the session lock,
\* or the transport call.
Suspended(k) == pc[k] \in {"set_await", "aclose_await", "req_sleep", "req_lock", "req_io"}

\* C13: no coroutine of an AsyncRequestsClient is suspended while it holds
\* the session lock.
C13_NoLockAcrossSuspension ==
    Async => \A k \in Threads : Suspended(k) => lockHolder # k

\* C14: a request() whose transport call raised never returns normally: it
\* raises exc(cause, url) when exc is configured and the transport's own
\* exception otherwise, whatever raise_errors and log are.
C14_TransportErrorPropagates ==
    (Requesting /\ result.reached /\ call.fails) =>
        /\ result.kind = "raised"
        /\ result.what = IF cfg.exc THEN "exc_cause" ELSE "cause"

\* A call made with raise_errors=False on a client with exc, whose transport
\* raised, has raised exc(cause, url).
C14_Witness ==
    /\ Requesting /\ result.reached /\ call.fails
    /\ cfg.exc /\ call.raise_errors = "false"
    /\ result.kind = "raised" /\ result.what = "exc_cause"

\* C15: a request() that got a response raises exactly when the status is in
\* [400, 600) and raise_on_code holds -- the per-call raise_errors when given,
\* else the client's -- and returns the response otherwise; with exc
\* configured what it raises is exc(response, url).
C15_RaiseOnErrorStatusOnly ==
    (Requesting /\ result.reached /\ ~call.fails) =>
        LET raise_on_code == IF call.raise_errors = "unset" THEN cfg.raise_errors
                             ELSE call.raise_errors = "true"
            error_status == 400 <= call.status /\ call.status < 600
        IN /\ result.kind = "raised" <=> (raise_on_code /\ error_status)
           /\ result.kind = "returned" <=> ~(raise_on_code /\ error_status)
           /\ (result.kind = "raised" /\ cfg.exc) => result.what = "exc_response"

\* C16: a call of AsyncRequestsClient.request with log=True ends exactly as
\* the same call with log=False does, and reaches the transport as it does.
C16_LoggingKeepsOutcome ==
    (Requesting /\ cfg.kind = "async" /\ result.kind # "none" /\ call.log) =>
        result = ReqOutcome(cfg, [call EXCEPT !.log = FALSE])

\* C17: the session factory is called with exactly the keyword arguments the
\* constructor was given beyond the named ones.
C17_FactoryGetsConstructorKwargs ==
    (Requesting /\ rsession) => factoryArgs = cfg.kwargs

\* scheme://host[:port]/ for the stored parts, written out.
BaseUrl ==
    scheme \o <<":", "/", "/">> \o host
           \o (IF port = <<>> THEN <<>> ELSE <<":">> \o IntToStr(port[1])) \o <<"/">>

\* C18: url_for(path) is scheme://host[:port]/ followed by the stored path
\* prefix (with relative=True only) and by the path without one leading '/'
\* -- for every path on a RequestsClient, and on an AsyncRequestsClient for
\* every path that is not an absolute URL passed with relative=False.
C18_UrlForComposition ==
    (UrlModel /\ op.name = "url_for" /\ op.params = <<>>
       /\ ~(cfg.kind = "async" /\ ~op.relative /\ IsAbsoluteUrl(op.path))) =>
        LET rest == IF op.path # <<>> /\ Head(op.path) = "/" THEN Tail(op.path) ELSE op.path
        IN lastUrl = BaseUrl \o (IF op.relative THEN path_prefix ELSE <<>>) \o rest

\* url_for('/x') was called on a client with a port and a path prefix.
C18_Witness ==
    /\ UrlModel /\ op.name = "url_for" /\ op.params = <<>>
    /\ op.path = <<"/", "x">> /\ op.relative
    /\ port # <<>> /\ path_prefix # <<>>
    /\ lastUrl = BaseUrl \o path_prefix \o <<"x">>

\* C19: a cached base-URL format is always the one of the current scheme,
\* host and port, so url_for('') shows the values assigned last, wherever
\* url_for calls and assignments are interleaved.
C19_CacheFollowsUrlParts ==
    UrlModel =>
        /\ urlFmt # <<>> => urlFmt[1] = BaseUrl \o <<"{", "}">>
        /\ (op.name = "url_for" /\ op.path = <<>> /\ op.params = <<>> /\ op.relative)
               => lastUrl = BaseUrl \o path_prefix

\* url_for('') was called after an assignment had discarded a cached format.
C19_Witness ==
    /\ UrlModel /\ invalidated
    /\ op.name = "url_for" /\ op.path = <<>> /\ op.params = <<>> /\ op.relative
    /\ urlFmt # <<>>

\* C20: assigning to port a string that is not a decimal number raises
\* ValueError and changes neither the stored port, nor the other URL parts,
\* nor the cached base-URL format, nor what url_for returns for any path.
C20_InvalidPortChangesNothing ==
    [][(UrlModel /\ op'.name = "set_port" /\ op'.value.t = "str"
          /\ (op'.value.s = <<>> \/ \E i \in 1..Len(op'.value.s) :
                 op'.value.s[i] \notin {"0", "1", "2", "3", "4", "5", "6", "7", "8", "9"}))
         => /\ op'.raised
            /\ port' = port /\ scheme' = scheme /\ host' = host
            /\ path_prefix' = path_prefix /\ urlFmt' = urlFmt
            /\ \A path \in Paths, relative \in BOOLEAN :
                  UrlForValue(path, <<>>, relative)' = UrlForValue(path, <<>>, relative)
      ]_vars

\* An assignment to port raised while a port was stored and a format cached.
C20_Witness ==
    /\ UrlModel /\ op.name = "set_port" /\ op.raised
    /\ port # <<>> /\ urlFmt # <<>>

\* C21: a client constructed from a URL stores the URL's scheme, host, port
\* and (normalized) path as its parts; a scheme, port or path_prefix argument
\* that is given (not None, empty or 0) replaces the URL's component, and with
\* nopath the URL's path is not used.
C21_UrlSeedsParts ==
    (Constructing /\ built = "ok" /\ args.parts.url) =>
        LET u == args.parts
            givenPort == args.port \in {PortInt(34), PortStr(<<"3", "4">>)}
        IN /\ host = u.host
           /\ scheme = IF args.scheme # <<>> THEN args.scheme ELSE u.scheme
           /\ port = IF givenPort THEN <<34>>
                     ELSE IF u.port = PortNone THEN <<>> ELSE <<u.port.n>>
           /\ path_prefix = format_path_prefix(
                                IF args.path_prefix # <<>> THEN args.path_prefix
                                ELSE IF args.nopath THEN <<>> ELSE u.path)

\* 'ws://a:12/t' alone gave ws, a, 12 and 't/'.
C21_Witness ==
    /\ Constructing /\ built = "ok"
    /\ args.host_or_url = <<"w", "s", ":", "/", "/", "a", ":", "1", "2", "/", "t">>
    /\ args.port = PortNone /\ args.scheme = <<>> /\ args.path_prefix = <<>> /\ ~args.nopath
    /\ scheme = <<"w", "s">> /\ host = <<"a">> /\ port = <<12>>
    /\ path_prefix = <<"t", "/">>

C23_AbsoluteUrlPassthrough ==
    (/\ UrlModel /\ op.name = "url_for" /\ ~op.relative
     /\ \/ StartsWith(op.path, <<"h", "t", "t", "p", ":", "/", "/">>)
        \/ StartsWith(op.path, <<"h", "t", "t", "p", "s", ":", "/", "/">>)) =>
        lastUrl = op.path \o (IF op.params # <<>> THEN <<"?">> \o Urlencode(op.params) ELSE <<>>)

\* C25: a request made with log=True emits exactly one request record,
\* "{METHOD} -> {url}", whose url carries the encoded query string exactly
\* when params is non-empty and log_params is true for the call, or unset for
\* the call and true for the client.
C25_OneRequestRecord ==
    (Requesting /\ result.kind # "none" /\ call.log) =>
        LET withParams ==
                /\ call.params # <<>>
                /\ \/ call.log_params = "true"
                   \/ call.log_params = "unset" /\ cfg.log_params
            rest == IF Head(call.path) = "/" THEN Tail(call.path) ELSE call.path
            expected ==
                call.method \o <<" ", "-", ">", " ">> \o BaseUrl
                    \o (IF call.relative THEN path_prefix ELSE <<>>) \o rest
                    \o (IF withParams THEN <<"?", "k", "=", "1">> ELSE <<>>)
            requestRecords == {i \in DOMAIN records : records[i] # DelayRecord(cfg)}
        IN /\ Cardinality(requestRecords) = 1
           /\ \A i \in requestRecords : records[i] = expected

\* C26: a request made with log=False emits no log record, whether the
\* client is rate-limited or not and whether the call has to wait or not.
C26_SilentWhenLogOff ==
    (Requesting /\ result.kind # "none" /\ ~call.log) => records = <<>>

\* C27: client.<verb>(path, **kw) calls what `request` is on the instance at
\* that moment -- the instance's own attribute if it has one, else the method
\* of its class, a subclass's override included -- with the upper-cased verb
\* first and the path and keyword arguments as they were given.
C27_AliasForwardsToCurrentRequest ==
    (Constructing /\ outcome.op = "alias") =>
        /\ outcome.target =
               IF "request" \in attrs THEN instRequest
               ELSE IF args.override THEN "Subclass.request"
               ELSE IF args.kind = "sync" THEN "RequestsClient.request"
               ELSE "AsyncRequestsClient.request"
        /\ <<outcome.value, outcome.fwd.args[1]>> \in
               {<<<<"g", "e", "t">>, <<"G", "E", "T">>>>,
                <<<<"p", "u", "t">>, <<"P", "U", "T">>>>,
                <<<<"p", "o", "s", "t">>, <<"P", "O", "S", "T">>>>,
                <<<<"d", "e", "l", "e", "t", "e">>, <<"D", "E", "L", "E", "T", "E">>>>,
                <<<<"o", "p", "t", "i", "o", "n", "s">>, <<"O", "P", "T", "I", "O", "N", "S">>>>,
                <<<<"h", "e", "a", "d">>, <<"H", "E", "A", "D">>>>,
                <<<<"p", "a", "t", "c", "h">>, <<"P", "A", "T", "C", "H">>>>}
        /\ Tail(outcome.fwd.args) = <<outcome.path>>
        /\ outcome.fwd.kwargs = outcome.kwargs

\* post('/t', data='test') on an instance of a subclass that overrides request.
C27_Witness ==
    /\ Constructing /\ outcome.op = "alias" /\ args.override /\ instRequest = "none"
    /\ outcome.target = "Subclass.request"
    /\ outcome.fwd = [args |-> <<<<"P", "O", "S", "T">>, <<"/", "t">>>>,
                      kwargs |-> {<<"data", "test">>}]

\* C28: pickle.dumps of a RequestsClient succeeds (and the restored client
\* answers url_for as the original does).
C28_PickleRoundTrip ==
    (Constructing /\ outcome.op = "pickle") => outcome.raised = "none"

\* C29: the constructor keeps every header it was given, adds nothing but a
\* User-Agent, and adds that one exactly when a User-Agent format is set and
\* the given headers have no User-Agent.
C29_UserAgentPreserved ==
    (Constructing /\ built = "ok") =>
        /\ args.headers \subseteq headers
        /\ \A h \in headers \ args.headers : h[1] = "User-Agent"
        /\ Cardinality({h \in headers : h[1] = "User-Agent"}) <= 1
        /\ (headers # args.headers) <=>
               (args.user_agent_fmt # <<>> /\ \A h \in args.headers : h[1] # "User-Agent")

\* headers={'Dnt': '1', 'User-Agent': 'test'} were given and are the headers.
C29_Witness ==
    /\ Constructing /\ built = "ok" /\ args.user_agent_fmt # <<>>
    /\ args.headers = {<<"Dnt", <<"1">>>>, <<"User-Agent", <<"test">>>>}
    /\ headers = args.headers

\* C30: with downgrade, generate_user_agent renders USER_AGENT_SCRIPT_CONTACT_OS
\* when url and email are both there, USER_AGENT_SCRIPT_URL_OS in its place when
\* one of them is missing (the email shown for a missing url), and
\* USER_AGENT_SCRIPT_OS in place of either when both are missing; every other
\* format is rendered as it is.
C30_DowngradePrecedence ==
    (variant = "ua" /\ outcome.op = "generate_user_agent" /\ outcome.downgrade) =>
        LET url == IF outcome.kw.url # Unset THEN outcome.kw.url ELSE args.env.url
            email == IF outcome.kw.email # Unset THEN outcome.kw.email ELSE args.env.email
            noUrl == url = "None"
            noEmail == email = "None"
            given == outcome.path
            expected ==
                IF given = USER_AGENT_SCRIPT_CONTACT_OS
                  THEN IF noUrl /\ noEmail THEN USER_AGENT_SCRIPT_OS
                       ELSE IF noUrl \/ noEmail THEN USER_AGENT_SCRIPT_URL_OS
                       ELSE USER_AGENT_SCRIPT_CONTACT_OS
                ELSE IF given = USER_AGENT_SCRIPT_URL_OS
                  THEN IF noUrl /\ noEmail THEN USER_AGENT_SCRIPT_OS
                       ELSE USER_AGENT_SCRIPT_URL_OS
                ELSE given
            shown == IF noUrl /\ ~noEmail THEN email ELSE url
        IN outcome.value =
               UaRender(expected, [UaInfo(FALSE, args.env, outcome.kw) EXCEPT !.url = shown])

\* The contact format was asked for by a script with an email and no url.
C30_Witness ==
    /\ variant = "ua" /\ outcome.op = "generate_user_agent" /\ outcome.downgrade
    /\ outcome.path = USER_AGENT_SCRIPT_CONTACT_OS /\ outcome.kw = NoUaKwargs
    /\ args.env = [url |-> "None", email |-> "example@fake.org"]
    /\ outcome.value =
           <<"some_script", "/", "1.0", " (", "example@fake.org", "; ", "Windows", " ", "10",
             "; ", "x64", ") ", "CPython", "/", "3.7.4", " ", "Requests", "/", "2.22.0",
             " RequestsClient/", "2020.01.18">>

\* C31: the URL request() hands to the transport, and to exc when it builds
\* the error, is the URL built without query parameters; the params reach the
\* transport unchanged within its options, whether or not the logged URL
\* includes them (the logged URL is the transport's URL, followed by the
\* query when params are logged).
HasQuery(s) == \E i \in 1..Len(s) : s[i] = "?"
C31_TransportUrlWithoutParams ==
    (Requesting /\ result.reached) =>
        /\ ~HasQuery(result.url)
        /\ result.params = call.params
        /\ (result.what \in {"exc_cause", "exc_response"} => result.excUrl = result.url)
        /\ (call.log =>
              records[Len(records)] =
                  call.method \o <<" ", "-", ">", " ">> \o result.url
                      \o (IF LogsParams(cfg, call)
                            THEN <<"?">> \o Urlencode(call.params) ELSE <<>>))
C31_Witness ==
    /\ Requesting /\ result.reached /\ result.what = "exc_response"
    /\ call.params # <<>> /\ call.log /\ LogsParams(cfg, call)
    /\ HasQuery(records[Len(records)]) /\ result.excUrl # <<>>

\* C32: when rate_limited('attr') wraps a method that several instances share,
\* the last-call time and the lock are shared by all of them: only one call at
\* a time is past the lock, whatever the instance, and the wrapped method
\* starts on an instance at least that instance's own interval after the most
\* recent attempt on any instance.
C32_SharedAcrossInstances ==
    IsAttrgetter =>
        /\ Cardinality({t \in Threads : pc[t] # "idle"}) <= 1
        /\ \A t \in Threads :
              (pc[t] = "w_func" /\ prevAttempt >= 0) =>
                  /\ stampers[2] = t
                  /\ lastStart - prevAttempt >= InstanceInterval(t)

\* A call on one instance was delayed because of a call on another instance
\* whose interval is a different one.
C32_Witness ==
    /\ IsAttrgetter
    /\ \E t \in Threads :
          /\ pc[t] = "w_func" /\ delayLogged[t] /\ prevAttempt >= 0
          /\ stampers[1] \notin {0, t}
          /\ InstanceInterval(stampers[1]) < InstanceInterval(t)
          /\ lastStart - prevAttempt < InstanceInterval(stampers[1]) + InstanceInterval(t)

\* C33: in shared mode no request is dispatched on a session that the client
\* has closed, however request() and close() calls of different threads
\* interleave.
C33_NoDispatchOnClosed ==
    [][\A t \in Threads :
          (InRequest /\ pc[t] = "req_send" /\ pc'[t] = "idle") => closeCount[tmp[t]] = 0
      ]_vars

\* C34: close() always closes whatever session is current, also one installed
\* through the `session` setter after an earlier close(): when a close() of a
\* client in shared mode returns while no other thread is inside the client,
\* no session is current.
C34_CloseClosesCurrent ==
    [][\A t \in Threads :
          (/\ Shared
           /\ \A u \in Threads \ {t} : pc[u] = "idle"
           /\ pc[t] \in {"close_detach", "close_crit"}
           /\ pc'[t] = "idle")
          => session' = None
      ]_vars

\* C35: the rate limiter does not deadlock on a request() made from within a
\* rate-limited request() of the same client and thread: no thread waits at
\* the limiter's lock while it holds that lock itself.
C35_NestedRequestCompletes ==
    RateLimited => \A t \in Threads : ~(pc[t] = "w_reenter" /\ rlLock = t)

\* C36: every call of the rate-limited request() gets to dispatch its request,
\* provided every dispatched request ends and the lock is granted fairly; the
\* lock is released also when the wrapped request raises.
C36_EveryCallDispatches ==
    \A t \in Threads :
        /\ (pc[t] = "w_enter") ~> (pc[t] = "w_func")
        /\ (pc[t] = "w_func") ~> (rlLock # t)

\* A call waits at the lock while the request of another call, which follows
\* a failed one, is running.
C36_Witness ==
    /\ RateLimited
    /\ \E t \in Threads :
          /\ pc[t] = "w_enter"
          /\ \E u \in Threads \ {t} :
                pc[u] = "w_func" /\ failedAt >= 0 /\ failedAt = prevAttempt

\* C37: when threads assign scheme, host and port while other threads call
\* url_for, then once every operation has completed the cached base-URL format
\* is absent or is the format of the current scheme, host and port.
C37_NoStaleCacheAfterRace ==
    (UrlRace /\ \A t \in Threads : pc[t] = "idle") =>
        (urlFmt = <<>> \/ urlFmt[1] = ComputeUrlFmt)

\* C38: over any sequence of reads and assignments of the session and of
\* close() calls, the client invokes close on one Session at most once.
C38_ClosedAtMostOnce ==
    \A s \in Ids : closeCount[s] <= 1

\* C39: on a RequestsClient built with a rate_limit, whose `request` attribute
\* is the one __init__ stored, every verb alias calls that same rate-limited
\* wrapper, the one a direct request() call goes through: no alias reaches
\* the plain method.
C39_AliasesAreRateLimited ==
    (Constructing /\ built = "ok" /\ args.kind = "sync" /\ args.rate_limit) =>
        /\ outcome.op = "init" => instRequest = "rate_limited"
        /\ (outcome.op = "alias" /\ instRequest = "rate_limited") =>
               outcome.target = "rate_limited"

\* post('/t') on a rate-limited RequestsClient.
C39_Witness ==
    /\ Constructing /\ built = "ok" /\ args.kind = "sync" /\ args.rate_limit
    /\ outcome.op = "alias" /\ outcome.value = <<"p", "o", "s", "t">>
    /\ instRequest = "rate_limited" /\ outcome.target = "rate_limited"

\* C40: constructing a client leaves the headers mapping the caller passed as
\* it was, and a second client built from the same mapping holds the headers a
\* client built from the original mapping holds, while the first client's
\* headers stay what its own construction made them.
C40_CallerMappingUntouched ==
    (Constructing /\ built = "ok") =>
        /\ CallerMapping = args.headers
        /\ headers = InitHeaders(args)
        /\ outcome.op = "init2" =>
               outcome.kwargs = InitHeaders([args EXCEPT !.user_agent_fmt = outcome.path])

====
